---- MODULE Spec2Model ----
(***************************************************************************)
(* Model of the venue-reservation backend (src/index.js): the reservations *)
(* collection, the request handlers that read and write it, and the        *)
(* scan-then-increment allocation of invoice and receipt identifiers; and  *)
(* of the migration scripts that fill the database from CSV files          *)
(* (src/migrate.js, src/unnamed/part_002).                                 *)
(*                                                                         *)
(* A JavaScript string is a sequence of one-character strings, so that     *)
(* formatting (padStart, template literals), parsing (split, parseInt),    *)
(* prefix matching ($regex ^..., startsWith) and the store's string sort   *)
(* are computed character by character, as the code computes them.         *)
(***************************************************************************)
EXTENDS Integers, Sequences, FiniteSets, TLC

(***************************************************************************)
(* Bounds of the model                                                     *)
(***************************************************************************)
\* concurrent create-reservation requests (in-flight slots)
MaxReq == 2
\* ObjectIds the server generates in one behaviour (caps the requests made)
MaxOid == 3
\* add-ons, and payments, held by one reservation
MaxKids == 2
\* month boundaries the clock crosses in one behaviour
MaxTicks == 1

(***************************************************************************)
(* JavaScript values                                                       *)
(***************************************************************************)
\* the number NaN (parseInt / parseFloat of a text with no leading number);
\* no request of the model carries the number -1 itself
NaN == -1

IsNaN(n) == n = NaN

\* a JSON value of a request body, or a field of a stored document
JUndef == [t |-> "undefined", n |-> 0, s |-> <<>>]
JNum(n) == [t |-> "number", n |-> n, s |-> <<>>]
JStr(s) == [t |-> "string", n |-> 0, s |-> s]

IsStr(j) == j.t = "string"

Digit == <<"0", "1", "2", "3", "4", "5", "6", "7", "8", "9">>

IsDigit(c) == \E d \in 1..10 : Digit[d] = c

DigitVal(c) == (CHOOSE d \in 1..10 : Digit[d] = c) - 1

\* the code unit of a character (the store sorts strings by code unit)
CharCode(c) ==
  CASE c = "-" -> 45
    [] c = "/" -> 47
    [] IsDigit(c) -> 48 + DigitVal(c)
    [] c = "A" -> 65
    [] c = "D" -> 68
    [] c = "E" -> 69
    [] c = "I" -> 73
    [] c = "N" -> 78
    [] c = "O" -> 79
    [] c = "P" -> 80
    [] c = "S" -> 83
    [] c = "T" -> 84
    [] c = "V" -> 86
    [] c = "X" -> 88
    [] c = "a" -> 97

RECURSIVE NatToStr(_)
\* String(n) for an integer n >= 0: its decimal digits, no leading zero
NatToStr(n) ==
  IF n < 10 THEN <<Digit[n + 1]>>
  ELSE NatToStr(n \div 10) \o <<Digit[(n % 10) + 1]>>

\* String(n)
NumToStr(n) ==
  IF IsNaN(n) THEN <<"N", "a", "N">>
  ELSE IF n < 0 THEN <<"-">> \o NatToStr(0 - n)
  ELSE NatToStr(n)

RECURSIVE PadStart(_, _, _)
\* s.padStart(w, c): c is prepended until the length is at least w
PadStart(s, w, c) == IF Len(s) >= w THEN s ELSE PadStart(<<c>> \o s, w, c)

\* s.startsWith(p); also the match of the anchored pattern ^p, whose
\* characters here (letters, digits, "/", "-") all match literally
StartsWith(s, p) == Len(s) >= Len(p) /\ SubSeq(s, 1, Len(p)) = p

\* s.split('-').pop(): what follows the last "-" (all of s if it has none)
SplitPop(s) ==
  LET dashes == {i \in 1..Len(s) : s[i] = "-"}
      last == IF dashes = {} THEN 0
              ELSE CHOOSE i \in dashes : \A j \in dashes : j <= i
  IN SubSeq(s, last + 1, Len(s))

RECURSIVE DigitsVal(_)
DigitsVal(s) ==
  IF s = <<>> THEN 0
  ELSE 10 * DigitsVal(SubSeq(s, 1, Len(s) - 1)) + DigitVal(s[Len(s)])

\* parseInt(s): the value of the longest prefix of digits, NaN if it is empty
ParseInt(s) ==
  LET stops == {i \in 1..Len(s) : ~IsDigit(s[i])}
      n == IF stops = {} THEN Len(s)
           ELSE (CHOOSE i \in stops : \A j \in stops : i <= j) - 1
  IN IF n = 0 THEN NaN ELSE DigitsVal(SubSeq(s, 1, n))

\* a + 1 in floating point: NaN + 1 is NaN
Plus1(n) == IF IsNaN(n) THEN NaN ELSE n + 1

\* a < b for strings: by code unit, a proper prefix first
StrLess(a, b) ==
  \E i \in 1..(Len(b)) :
     /\ i <= Len(a) + 1
     /\ SubSeq(a, 1, i - 1) = SubSeq(b, 1, i - 1)
     /\ \/ i = Len(a) + 1
        \/ i <= Len(a) /\ CharCode(a[i]) < CharCode(b[i])

StrLeq(a, b) == a = b \/ StrLess(a, b)

(***************************************************************************)
(* The clock: months since year 0                                          *)
(***************************************************************************)
\* now.getFullYear()
GetFullYear(now) == now \div 12

\* now.getMonth(): 0 .. 11
GetMonth(now) == now % 12

\* mutant of MonthStr: the month is not padded
MonthStr_Unpadded(now) == NumToStr(GetMonth(now) + 1)

\* String(now.getMonth() + 1).padStart(2, '0')
MonthStr(now) == PadStart(NumToStr(GetMonth(now) + 1), 2, "0")

\* `^INV/${year}/${month}-VE-`
InvoicePrefix(now) ==
  <<"I", "N", "V", "/">> \o NumToStr(GetFullYear(now)) \o <<"/">>
    \o MonthStr(now) \o <<"-", "V", "E", "-">>

\* `^NOTA/${year}/${month}-SDP-`
KwitansiPrefix(now) ==
  <<"N", "O", "T", "A", "/">> \o NumToStr(GetFullYear(now)) \o <<"/">>
    \o MonthStr(now) \o <<"-", "S", "D", "P", "-">>

(***************************************************************************)
(* The reservations collection and the requests in flight                  *)
(***************************************************************************)
VARIABLES
  store,    \* reservationsCollection: the set of reservation documents
  clock,    \* the wall clock, in months since year 0
  req,      \* the create-reservation requests in flight, by slot
  nextOid,  \* the number of ObjectIds generated so far
  last,     \* the response sent by the handler that completed last, with
            \* the request it answers and the document it wrote
  issued,   \* the invoice identifiers allocated by the successful creates,
            \* in the order of their inserts
  addonsCollection,   \* the collection 'addons' of the same database
  paymentsCollection, \* the collection 'payments' of the same database
  script,   \* the run of a migration script: its position, what it read
            \* and built, and its exit status
  pending,  \* the add-on and add-payment requests in flight, by slot
  listed    \* the pages list-reservations has answered, by page number

vars == <<store, clock, req, nextOid, last, issued, addonsCollection,
          paymentsCollection, script, pending, listed>>

\* the month the server starts in: June 2025
StartClock == 2025 * 12 + 5

Slots == 1..MaxReq

\* the ObjectId made by the n-th call of new ObjectId()
ObjId(n) == [t |-> "ObjectId", n |-> n, s |-> <<>>]

\* the slot of no request
Idle ==
  [pc |-> "idle", body |-> JUndef, now |-> 0, nomorInvoice |-> <<>>,
   reservation |-> JUndef]

InFlight == {r \in Slots : req[r].pc # "idle"}

NoResponse == [op |-> "none", status |-> 0]

\* no migration script is running
NotRun == [pc |-> "none"]

\* the slot of no append request
NoAppend == [pc |-> "idle"]

\* no page has been answered
NoPages == <<>>

(***************************************************************************)
(* Store queries                                                           *)
(***************************************************************************)
\* { field: { $regex: `^prefix` } } on a field holding one value
RegexMatch(j, prefix) == IsStr(j) /\ StartsWith(j.s, prefix)

\* mutant of InvoiceMatches: the scan is not limited to the scope
InvoiceMatches_AnyMonth(docs, prefix) ==
  {d \in docs : IsStr(d.nomorInvoice)}

\* find({ nomorInvoice: { $regex: `^prefix` } })
InvoiceMatches(docs, prefix) ==
  {d \in docs : RegexMatch(d.nomorInvoice, prefix)}

\* findOne(query, { sort: { nomorInvoice: -1 } }): the documents that may be
\* returned, those whose nomorInvoice no other match exceeds; none is null
FindLastInvoice(docs, prefix) ==
  LET m == InvoiceMatches(docs, prefix)
  IN {d \in m : \A e \in m : StrLeq(e.nomorInvoice.s, d.nomorInvoice.s)}

\* the string nomorKwitansi values of the payments of a document
KwitansiStrings(d) ==
  {d.pembayaran[i].nomorKwitansi.s : i \in
     {k \in 1..Len(d.pembayaran) : IsStr(d.pembayaran[k].nomorKwitansi)}}

\* find({ "pembayaran.nomorKwitansi": { $regex: `^prefix` } }): a document
\* matches when one element of its array matches
KwitansiMatches(docs, prefix) ==
  {d \in docs : \E k \in KwitansiStrings(d) : StartsWith(k, prefix)}

\* the sort key of a document for { "pembayaran.nomorKwitansi": -1 }: the
\* greatest element of the array, whether or not it matches the query
KwitansiSortKey(d) ==
  CHOOSE k \in KwitansiStrings(d) : \A j \in KwitansiStrings(d) : StrLeq(j, k)

\* findOne(query, { sort: { "pembayaran.nomorKwitansi": -1 } })
FindLastKwitansi(docs, prefix) ==
  LET m == KwitansiMatches(docs, prefix)
  IN {d \in m : \A e \in m : StrLeq(KwitansiSortKey(e), KwitansiSortKey(d))}

(***************************************************************************)
(* POST /api/reservations                                                  *)
(***************************************************************************)
\* parseFloat(v) of a JSON value
ParseFloat(j) ==
  CASE j.t = "number" -> j.n
    [] j.t = "string" -> ParseInt(j.s)
    [] OTHER -> NaN

\* parseInt(v) of a JSON value (the numbers of the model are integers)
ParseIntOf(j) ==
  CASE j.t = "number" -> j.n
    [] j.t = "string" -> ParseInt(j.s)
    [] OTHER -> NaN

\* body.name: undefined when the body has no such field
Field(body, name) == IF name \in DOMAIN body THEN body[name] ELSE JUndef

\* new Date(v) of a JSON value, in days: a number is that time, anything
\* else here is an Invalid Date
NewDate(j) == IF j.t = "number" THEN j.n ELSE NaN

\* x || 0 for a number x
OrZero(n) == IF IsNaN(n) \/ n = 0 THEN 0 ELSE n

\* mutant of NextIdNumber: the number of documents + 1
NextIdNumber_Count(found) == Cardinality(store) + 1

\* nextIdNumber: 1, or parseInt of the last "-" part of the found invoice + 1
NextIdNumber(found) ==
  IF found = {} THEN 1
  ELSE LET lastInvoice == CHOOSE d \in found : TRUE
       IN Plus1(ParseInt(SplitPop(lastInvoice.nomorInvoice.s)))

\* `INV/${year}/${month}-VE-${nextId}`
NomorInvoice(now, nextIdNumber) ==
  InvoicePrefix(now) \o PadStart(NumToStr(nextIdNumber), 4, "0")

\* Math.max(...numbers) of a non-empty set: NaN if one of them is NaN
MathMax(ns) ==
  IF NaN \in ns THEN NaN ELSE CHOOSE n \in ns : \A m \in ns : m <= n

\* k.startsWith(...) throws a TypeError on a nomorKwitansi that is no string
KwitansiThrows(lastKwitansi) ==
  \E i \in 1..Len(lastKwitansi.pembayaran) :
     ~IsStr(lastKwitansi.pembayaran[i].nomorKwitansi)

\* nextKwitansiNum from the document the scan returned
NextKwitansiNum(lastKwitansi, prefix) ==
  LET numbers == {ParseInt(SplitPop(k)) :
                    k \in {j \in KwitansiStrings(lastKwitansi) :
                             StartsWith(j, prefix)}}
  IN IF numbers = {} THEN 1 ELSE Plus1(MathMax(numbers))

\* `NOTA/${year}/${month}-SDP-${kwitansiId}`
NomorKwitansi(now, nextKwitansiNum) ==
  KwitansiPrefix(now) \o PadStart(NumToStr(nextKwitansiNum), 4, "0")

\* a field of { _id: new ObjectId(), nomorInvoice, ...newData }: the spread
\* comes after both, so a field of the body replaces the computed one
Spread(computed, fromBody) ==
  IF fromBody.t = "undefined" THEN computed ELSE fromBody

\* const reservation = { ... }
Reservation(oid, nomorInvoice, body, dpAmount, initialPayments, at) ==
  [_id |-> Spread(ObjId(oid), body._id),
   nomorInvoice |-> Spread(JStr(nomorInvoice), body.nomorInvoice),
   tanggalEvent |-> NewDate(Field(body, "tanggalEvent")),
   pax |-> ParseIntOf(Field(body, "pax")),
   hargaPerPax |-> ParseFloat(Field(body, "hargaPerPax")),
   subTotal |-> ParseFloat(Field(body, "subTotal")),
   dp |-> dpAmount,
   pembayaran |-> initialPayments,
   addons |-> <<>>,
   createdAt |-> at]

\* the handler is entered: now = new Date(), and the invoice scan is issued
CreateStart(r, body) ==
  /\ req[r].pc = "idle"
  /\ nextOid < MaxOid
  /\ req' = [req EXCEPT ![r] =
        [Idle EXCEPT !.pc = "findInvoice", !.body = body, !.now = clock]]
  /\ UNCHANGED <<store, clock, nextOid, last, issued>>
  /\ UNCHANGED <<addonsCollection, paymentsCollection>>
  /\ UNCHANGED <<script, pending, listed>>

\* the store answers the invoice scan; the handler computes nomorInvoice and
\* either issues the receipt scan (dp > 0) or builds the record and issues
\* the insert
CreateFindInvoice(r) ==
  /\ req[r].pc = "findInvoice"
  /\ LET q == req[r]
         nomorInvoice ==
           NomorInvoice(q.now,
                        NextIdNumber(FindLastInvoice(store, InvoicePrefix(q.now))))
         dpAmount == OrZero(ParseFloat(q.body.dp))
     IN IF dpAmount > 0
        THEN /\ req' = [req EXCEPT ![r].pc = "findKwitansi",
                                   ![r].nomorInvoice = nomorInvoice]
             /\ UNCHANGED nextOid
        ELSE /\ req' = [req EXCEPT ![r].pc = "insert",
                                   ![r].nomorInvoice = nomorInvoice,
                                   ![r].reservation =
                                      Reservation(nextOid + 1, nomorInvoice,
                                                  q.body, dpAmount, <<>>, clock)]
             /\ nextOid' = nextOid + 1
  /\ UNCHANGED <<store, clock, last, issued>>
  /\ UNCHANGED <<addonsCollection, paymentsCollection>>
  /\ UNCHANGED <<script, pending, listed>>

\* the store answers the receipt scan with one of the documents it may
\* return; the handler builds the down payment and the record, or throws
CreateFindKwitansi(r) ==
  /\ req[r].pc = "findKwitansi"
  /\ LET q == req[r]
         prefix == KwitansiPrefix(q.now)
         found == FindLastKwitansi(store, prefix)
         dpAmount == OrZero(ParseFloat(q.body.dp))
         Built(num) ==
           /\ req' = [req EXCEPT ![r].pc = "insert",
                ![r].reservation =
                   Reservation(nextOid + 2, q.nomorInvoice, q.body, dpAmount,
                     <<[_id |-> ObjId(nextOid + 1),
                        nomorKwitansi |-> JStr(NomorKwitansi(q.now, num)),
                        jumlah |-> dpAmount]>>, clock)]
           /\ nextOid' = nextOid + 2
           /\ UNCHANGED last
     IN IF found = {} THEN Built(1)
        ELSE \E lastKwitansi \in found :
               IF KwitansiThrows(lastKwitansi)
               THEN /\ req' = [req EXCEPT ![r] = Idle]
                    /\ last' = [op |-> "create", status |-> 500, slot |-> r,
                                body |-> q.body, nomorInvoice |-> q.nomorInvoice,
                                at |-> q.pc]
                    /\ UNCHANGED nextOid
               ELSE Built(NextKwitansiNum(lastKwitansi, prefix))
  /\ UNCHANGED <<store, clock, issued>>
  /\ UNCHANGED <<addonsCollection, paymentsCollection>>
  /\ UNCHANGED <<script, pending, listed>>

\* the store executes insertOne: a duplicate _id is rejected
CreateInsert(r) ==
  /\ req[r].pc = "insert"
  /\ LET q == req[r]
     IN IF \E d \in store : d._id = q.reservation._id
        THEN /\ last' = [op |-> "create", status |-> 500, slot |-> r,
                         body |-> q.body, nomorInvoice |-> q.nomorInvoice,
                         at |-> q.pc]
             /\ UNCHANGED <<store, issued>>
        ELSE /\ store' = store \cup {q.reservation}
             /\ issued' = Append(issued, q.nomorInvoice)
             /\ last' = [op |-> "create", status |-> 201, slot |-> r,
                         body |-> q.body, nomorInvoice |-> q.nomorInvoice,
                         data |-> q.reservation]
  /\ req' = [req EXCEPT ![r] = Idle]
  /\ UNCHANGED <<clock, nextOid>>
  /\ UNCHANGED <<addonsCollection, paymentsCollection>>
  /\ UNCHANGED <<script, pending, listed>>

\* mutant of CreateStoreError: an insert that fails has written the record
CreateStoreError_Written(r) ==
  /\ req[r].pc \in {"findInvoice", "findKwitansi", "insert"}
  /\ last' = [op |-> "create", status |-> 500, slot |-> r,
              body |-> req[r].body, nomorInvoice |-> req[r].nomorInvoice,
              at |-> req[r].pc]
  /\ req' = [req EXCEPT ![r] = Idle]
  /\ store' = IF req[r].pc = "insert" THEN store \cup {req[r].reservation}
              ELSE store
  /\ UNCHANGED <<clock, nextOid, issued>>
  /\ UNCHANGED <<addonsCollection, paymentsCollection>>
  /\ UNCHANGED <<script, pending, listed>>

\* mutant of CreateStoreError: the handler answers 500 and goes on with the
\* request
CreateStoreError_Retried(r) ==
  /\ req[r].pc \in {"findInvoice", "findKwitansi", "insert"}
  /\ last' = [op |-> "create", status |-> 500, slot |-> r,
              body |-> req[r].body, nomorInvoice |-> req[r].nomorInvoice,
              at |-> req[r].pc]
  /\ UNCHANGED <<store, clock, req, nextOid, issued>>
  /\ UNCHANGED <<addonsCollection, paymentsCollection>>
  /\ UNCHANGED <<script, pending, listed>>

\* the pending store call of the request fails: catch (e), status 500; the
\* response records the call that failed
CreateStoreError(r) ==
  /\ req[r].pc \in {"findInvoice", "findKwitansi", "insert"}
  /\ last' = [op |-> "create", status |-> 500, slot |-> r,
              body |-> req[r].body, nomorInvoice |-> req[r].nomorInvoice,
              at |-> req[r].pc]
  /\ req' = [req EXCEPT ![r] = Idle]
  /\ UNCHANGED <<store, clock, nextOid, issued>>
  /\ UNCHANGED <<addonsCollection, paymentsCollection>>
  /\ UNCHANGED <<script, pending, listed>>

(***************************************************************************)
(* Handlers on /api/reservations/:id                                       *)
(***************************************************************************)
\* the :id of a request path: whether it is 24 hexadecimal characters, and
\* the ObjectId those characters denote
PathId(hex, n) == [hex |-> hex, n |-> n]

\* ObjectId.isValid(id)
IsValid(id) == id.hex

\* new ObjectId(id)
ToObjectId(id) == ObjId(id.n)

\* mutant of ById: the filter matches every document
ById_Any(docs, id) == docs

\* find({ _id: new ObjectId(id) })
ById(docs, id) == {d \in docs : d._id = ToObjectId(id)}

\* mutant of Falsy: no value is falsy
Falsy_Never(j) == FALSE

\* !v for a JSON value
Falsy(j) ==
  \/ j.t = "undefined"
  \/ j.t = "number" /\ (j.n = 0 \/ IsNaN(j.n))
  \/ j.t = "string" /\ j.s = <<>>

\* an array field of a body: absent, or present with its elements
NoArray == [has |-> FALSE, v |-> <<>>]
Array(v) == [has |-> TRUE, v |-> v]

\* mutant of SetUpdateData: the whole body is set, nomorInvoice included
SetUpdateData_Whole(d, body) ==
  [d EXCEPT !.nomorInvoice = Spread(@, body.nomorInvoice),
            !.tanggalEvent = NewDate(Field(body, "tanggalEvent")),
            !.pax = ParseIntOf(Field(body, "pax")),
            !.hargaPerPax = ParseFloat(Field(body, "hargaPerPax")),
            !.subTotal = ParseFloat(Field(body, "subTotal")),
            !.dp = ParseFloat(body.dp),
            !.addons = IF body.addons.has THEN body.addons.v ELSE @,
            !.pembayaran = IF body.pembayaran.has THEN body.pembayaran.v ELSE @]

\* { $set: updateData }: _id and nomorInvoice were taken out of the body; dp
\* is parsed; the other fields of the body, the two arrays among them, are
\* set as sent
SetUpdateData(d, body) ==
  [d EXCEPT !.tanggalEvent = NewDate(Field(body, "tanggalEvent")),
            !.pax = ParseIntOf(Field(body, "pax")),
            !.hargaPerPax = ParseFloat(Field(body, "hargaPerPax")),
            !.subTotal = ParseFloat(Field(body, "subTotal")),
            !.dp = ParseFloat(body.dp),
            !.addons = IF body.addons.has THEN body.addons.v ELSE @,
            !.pembayaran = IF body.pembayaran.has THEN body.pembayaran.v ELSE @]

\* PUT /api/reservations/:id
Update(id, body, fails) ==
  /\ IF ~IsValid(id)
     THEN /\ last' = [op |-> "update", status |-> 400, id |-> id]
          /\ UNCHANGED store
     ELSE IF fails
     THEN /\ last' = [op |-> "update", status |-> 500, id |-> id]
          /\ UNCHANGED store
     ELSE IF ById(store, id) = {}
     THEN /\ last' = [op |-> "update", status |-> 404, id |-> id]
          /\ UNCHANGED store
     ELSE /\ store' = {IF d \in ById(store, id)
                       THEN SetUpdateData(d, body) ELSE d : d \in store}
          /\ last' = [op |-> "update", status |-> 200, id |-> id]
  /\ UNCHANGED <<clock, req, nextOid, issued>>
  /\ UNCHANGED <<addonsCollection, paymentsCollection>>
  /\ UNCHANGED <<script, pending, listed>>

\* DELETE /api/reservations/:id
Delete(id, fails) ==
  /\ IF ~IsValid(id)
     THEN /\ last' = [op |-> "delete", status |-> 400, id |-> id]
          /\ UNCHANGED store
     ELSE IF fails
     THEN /\ last' = [op |-> "delete", status |-> 500, id |-> id]
          /\ UNCHANGED store
     ELSE IF ById(store, id) = {}
     THEN /\ last' = [op |-> "delete", status |-> 404, id |-> id]
          /\ UNCHANGED store
     ELSE /\ store' = store \ ById(store, id)
          /\ last' = [op |-> "delete", status |-> 200, id |-> id]
  /\ UNCHANGED <<clock, req, nextOid, issued>>
  /\ UNCHANGED <<addonsCollection, paymentsCollection>>
  /\ UNCHANGED <<script, pending, listed>>

\* GET /api/reservations/:id
Get(id, fails) ==
  /\ last' = IF ~IsValid(id) THEN [op |-> "get", status |-> 400, id |-> id]
             ELSE IF fails THEN [op |-> "get", status |-> 500, id |-> id]
             ELSE IF ById(store, id) = {}
             THEN [op |-> "get", status |-> 404, id |-> id]
             ELSE [op |-> "get", status |-> 200, id |-> id,
                   data |-> CHOOSE d \in ById(store, id) : TRUE]
  /\ UNCHANGED <<store, clock, req, nextOid, issued>>
  /\ UNCHANGED <<addonsCollection, paymentsCollection>>
  /\ UNCHANGED <<script, pending, listed>>

\* mutant of Push: the array is written back as the one the request built
Push_Replaced(docs, id, field, child) ==
  {IF d \in ById(docs, id)
   THEN IF field = "addons" THEN [d EXCEPT !.addons = <<child>>]
        ELSE [d EXCEPT !.pembayaran = <<child>>]
   ELSE d : d \in docs}

\* { $push: { field: child } } on the document with this _id
Push(docs, id, field, child) ==
  {IF d \in ById(docs, id)
   THEN IF field = "addons" THEN [d EXCEPT !.addons = Append(@, child)]
        ELSE [d EXCEPT !.pembayaran = Append(@, child)]
   ELSE d : d \in docs}

\* the document has room for one more child (a bound of the model)
HasRoom(docs, id, field) ==
  \A d \in ById(docs, id) :
     Len(IF field = "addons" THEN d.addons ELSE d.pembayaran) < MaxKids

\* const newAddon = { ... }
NewAddon(oid, body) ==
  [_id |-> ObjId(oid), item |-> body.item, pax |-> ParseIntOf(body.pax)]

\* POST /api/reservations/:id/addons
AddAddon(id, body, fails) ==
  /\ HasRoom(store, id, "addons")
  /\ IF ~IsValid(id)
     THEN /\ last' = [op |-> "addon", status |-> 400, id |-> id]
          /\ UNCHANGED <<store, nextOid>>
     ELSE IF \/ Falsy(body.item) \/ body.pax.t = "undefined"
             \/ body.hargaPerPax.t = "undefined" \/ body.subTotal.t = "undefined"
     THEN /\ last' = [op |-> "addon", status |-> 400, id |-> id]
          /\ UNCHANGED <<store, nextOid>>
     ELSE LET newAddon == NewAddon(nextOid + 1, body)
          IN /\ nextOid < MaxOid
             /\ nextOid' = nextOid + 1
             /\ IF fails
                THEN /\ last' = [op |-> "addon", status |-> 500, id |-> id]
                     /\ UNCHANGED store
                ELSE IF ById(store, id) = {}
                THEN /\ last' = [op |-> "addon", status |-> 404, id |-> id]
                     /\ UNCHANGED store
                ELSE /\ store' = Push(store, id, "addons", newAddon)
                     /\ last' = [op |-> "addon", status |-> 201, id |-> id,
                                 data |-> newAddon]
  /\ UNCHANGED <<clock, req, issued>>
  /\ UNCHANGED <<addonsCollection, paymentsCollection>>
  /\ UNCHANGED <<script, pending, listed>>

\* mutant of NewPayment: the server allocates the receipt identifier
NewPayment_Allocated(oid, body) ==
  [_id |-> ObjId(oid), nomorKwitansi |-> JStr(NomorKwitansi(clock, oid)),
   jumlah |-> ParseFloat(body.jumlah)]

\* const newPayment = { ... }: nomorKwitansi is the one the client sent
NewPayment(oid, body) ==
  [_id |-> ObjId(oid), nomorKwitansi |-> body.nomorKwitansi,
   jumlah |-> ParseFloat(body.jumlah)]

\* POST /api/reservations/:id/pembayaran
AddPayment(id, body, fails) ==
  /\ HasRoom(store, id, "pembayaran")
  /\ IF ~IsValid(id)
     THEN /\ last' = [op |-> "payment", status |-> 400, id |-> id]
          /\ UNCHANGED <<store, nextOid>>
     ELSE IF Falsy(body.jumlah) \/ Falsy(body.tanggal)
     THEN /\ last' = [op |-> "payment", status |-> 400, id |-> id]
          /\ UNCHANGED <<store, nextOid>>
     ELSE LET newPayment == NewPayment(nextOid + 1, body)
          IN /\ nextOid < MaxOid
             /\ nextOid' = nextOid + 1
             /\ IF fails
                THEN /\ last' = [op |-> "payment", status |-> 500, id |-> id]
                     /\ UNCHANGED store
                ELSE IF ById(store, id) = {}
                THEN /\ last' = [op |-> "payment", status |-> 404, id |-> id]
                     /\ UNCHANGED store
                ELSE /\ store' = Push(store, id, "pembayaran", newPayment)
                     /\ last' = [op |-> "payment", status |-> 201, id |-> id,
                                 nomorKwitansi |-> body.nomorKwitansi,
                                 data |-> newPayment]
  /\ UNCHANGED <<clock, req, issued>>
  /\ UNCHANGED <<addonsCollection, paymentsCollection>>
  /\ UNCHANGED <<script, pending, listed>>

\* a month boundary passes
Tick ==
  /\ clock < StartClock + MaxTicks
  /\ clock' = clock + 1
  /\ UNCHANGED <<store, req, nextOid, last, issued>>
  /\ UNCHANGED <<addonsCollection, paymentsCollection>>
  /\ UNCHANGED <<script, pending, listed>>

(***************************************************************************)
(* Requests                                                                *)
(***************************************************************************)
\* the year and month of identifiers that requests and imported files carry
June2025 == <<"2", "0", "2", "5", "/", "0", "6">>
May2025 == <<"2", "0", "2", "5", "/", "0", "5">>
July2025 == <<"2", "0", "2", "5", "/", "0", "7">>
July2024 == <<"2", "0", "2", "4", "/", "0", "7">>

\* an invoice, and a receipt, identifier as a text
Inv(ym, suffix) == <<"I", "N", "V", "/">> \o ym \o <<"-", "V", "E", "-">> \o suffix
Nota(ym, suffix) ==
  <<"N", "O", "T", "A", "/">> \o ym \o <<"-", "S", "D", "P", "-">> \o suffix

\* "INV/2025/06-VE-" and "NOTA/2025/06-SDP-" followed by a suffix
Inv06(suffix) == Inv(June2025, suffix)
Nota06(suffix) == Nota(June2025, suffix)

\* bodies of create-reservation that carry no _id and no nomorInvoice
PlainBodies ==
  {[_id |-> JUndef, nomorInvoice |-> JUndef, dp |-> dp] :
     dp \in {JUndef, JNum(5)}}

\* bodies of create-reservation that carry a nomorInvoice, or an _id
InvoiceBodies ==
  {[_id |-> JUndef, nomorInvoice |-> JStr(Inv06(<<"0", "0", "0", "7">>)),
    dp |-> JUndef]}

IdBodies == {[_id |-> JStr(<<"a">>), nomorInvoice |-> JUndef, dp |-> JUndef]}

CreateBodies == PlainBodies \cup InvoiceBodies \cup IdBodies

UpdateBodies ==
  {[_id |-> JStr(<<"a">>), nomorInvoice |-> JStr(Inv06(<<"0", "0", "0", "9">>)),
    dp |-> JNum(5), addons |-> NoArray, pembayaran |-> NoArray],
   [_id |-> JUndef, nomorInvoice |-> JUndef,
    dp |-> JUndef, addons |-> Array(<<>>), pembayaran |-> Array(<<>>)]}

AddonBodies ==
  {[item |-> JStr(<<"A">>), pax |-> JNum(2), hargaPerPax |-> JNum(1),
    subTotal |-> JNum(2)],
   [item |-> JUndef, pax |-> JNum(2), hargaPerPax |-> JNum(1),
    subTotal |-> JNum(2)]}

PaymentBodies ==
  {[jumlah |-> JNum(5), tanggal |-> JStr(<<"2">>), nomorKwitansi |-> k] :
     k \in {JUndef, JStr(Nota06(<<"0", "0", "0", "1">>))}}
  \cup {[jumlah |-> JUndef, tanggal |-> JStr(<<"2">>), nomorKwitansi |-> JUndef]}

\* the ids requests are made with: a malformed one, a well-formed one that
\* no document has, and those of the documents in the collection
BadIds == {PathId(FALSE, 0)}
MissingIds == {PathId(TRUE, 0)}
StoredIds == {PathId(TRUE, d._id.n) : d \in {e \in store : e._id.t = "ObjectId"}}
PathIds == BadIds \cup MissingIds \cup StoredIds

\* the collection is empty when the server starts
Init ==
  /\ store = {}
  /\ clock = StartClock
  /\ req = [r \in Slots |-> Idle]
  /\ nextOid = 0
  /\ last = NoResponse
  /\ issued = <<>>
  /\ script = NotRun
  /\ pending = [r \in Slots |-> NoAppend]
  /\ listed = NoPages
  /\ addonsCollection = {}
  /\ paymentsCollection = {}

(***************************************************************************)
(* Collections imported by the migration script before the server starts  *)
(***************************************************************************)
\* the document the script builds for a row of reservations.csv: the
\* 'Nomor Invoice' cell as it stands, both arrays empty; its ObjectId is
\* made by the script, not by the server (numbered below zero here)
MigratedDoc(k, inv) ==
  [_id |-> ObjId(0 - k), nomorInvoice |-> JStr(inv),
   tanggalEvent |-> StartClock, pax |-> 0,
   hargaPerPax |-> 0, subTotal |-> 0, dp |-> 0,
   pembayaran |-> <<>>, addons |-> <<>>, createdAt |-> StartClock]

\* deleteMany({}) then insertMany(finalData): one document per distinct
\* invoice of the file
Migrated(invs) ==
  {MigratedDoc(k, invs[k]) : k \in {i \in 1..Len(invs) :
                                      \A j \in (i + 1)..Len(invs) : invs[j] # invs[i]}}

\* 'Nomor Invoice' columns of reservations.csv
CsvFiles ==
  {<<Inv06(<<"0", "0", "1", "4">>)>>,
   <<Inv06(<<"0", "0", "0", "3">>), Inv06(<<"X", "X", "X", "X">>)>>,
   <<Inv06(<<"X", "X", "X", "X">>)>>,
   <<Inv06(<<"9", "9", "9", "9">>)>>,
   <<Inv(May2025, <<"0", "0", "0", "2">>), Inv(July2024, <<"0", "0", "0", "5">>)>>}

\* the server starts on a migrated collection
InitMigrated ==
  /\ store \in {Migrated(f) : f \in CsvFiles}
  /\ clock = StartClock
  /\ req = [r \in Slots |-> Idle]
  /\ nextOid = 0
  /\ last = NoResponse
  /\ issued = <<>>
  /\ script = NotRun
  /\ pending = [r \in Slots |-> NoAppend]
  /\ listed = NoPages
  /\ addonsCollection = {}
  /\ paymentsCollection = {}

\* POST /api/reservations: the steps of the requests in the given slots,
\* made with the given bodies
CreateNext(slots, bodies) ==
  \/ \E r \in slots, body \in bodies : CreateStart(r, body)
  \/ \E r \in slots : CreateFindInvoice(r)
  \/ \E r \in slots : CreateFindKwitansi(r)
  \/ \E r \in slots : CreateInsert(r)

\* a store call of a create request fails
CreateErrorNext(slots) == \E r \in slots : CreateStoreError(r)

\* the other handlers, called with the given ids; `outcomes` holds FALSE for
\* store calls that succeed and TRUE for store calls that fail
DeleteNext(ids, outcomes) == \E id \in ids, fails \in outcomes : Delete(id, fails)

UpdateNext(ids, bodies, outcomes) ==
  \E id \in ids, body \in bodies, fails \in outcomes : Update(id, body, fails)

GetNext(ids, outcomes) == \E id \in ids, fails \in outcomes : Get(id, fails)

AddAddonNext(ids, bodies, outcomes) ==
  \E id \in ids, body \in bodies, fails \in outcomes : AddAddon(id, body, fails)

AddPaymentNext(ids, bodies, outcomes) ==
  \E id \in ids, body \in bodies, fails \in outcomes : AddPayment(id, body, fails)

\* the server in normal operation: one create request at a time, requests
\* on the documents of the collection, store calls that succeed
Next ==
  \/ Tick
  \/ CreateNext({1}, PlainBodies)
  \/ DeleteNext(StoredIds, {FALSE})
  \/ UpdateNext(StoredIds, UpdateBodies, {FALSE})
  \/ AddAddonNext(StoredIds, AddonBodies, {FALSE})
  \/ AddPaymentNext(StoredIds, PaymentBodies, {FALSE})

Spec == Init /\ [][Next]_vars

\* concurrent create requests on an empty collection
NextConcurrent ==
  \/ Tick
  \/ CreateNext(Slots, PlainBodies)

SpecConcurrent == Init /\ [][NextConcurrent]_vars

\* creates and deletes, one request at a time, on a migrated collection
NextMigrated ==
  \/ Tick
  \/ CreateNext({1}, PlainBodies)
  \/ DeleteNext(StoredIds, {FALSE})

SpecMigrated == InitMigrated /\ [][NextMigrated]_vars

\* creates only, one request at a time, whose bodies may carry a nomorInvoice
NextCreates ==
  \/ Tick
  \/ CreateNext({1}, PlainBodies \cup InvoiceBodies)

SpecCreates == Init /\ [][NextCreates]_vars

\* creates and payments, one request at a time
NextPayments ==
  \/ Tick
  \/ CreateNext({1}, PlainBodies)
  \/ AddPaymentNext(PathIds, PaymentBodies, {FALSE})

SpecPayments == Init /\ [][NextPayments]_vars

(***************************************************************************)
(* Collections imported with their payments                                *)
(***************************************************************************)
\* the payment the script builds for a row of payments.csv: the
\* 'No Kwitansi' cell as it stands
MigratedPayment(k, kwitansi) ==
  [_id |-> ObjId(0 - 10 - k), nomorKwitansi |-> JStr(kwitansi), jumlah |-> 5]

\* the rows of payments.csv whose INV cell is inv, as payments, in file order
PaymentsOf(inv, rows) ==
  LET Mine(row) == row[2] = inv
      mine == SelectSeq([i \in 1..Len(rows) |-> <<i, rows[i][1], rows[i][2]>>],
                        Mine)
  IN [i \in 1..Len(mine) |-> MigratedPayment(mine[i][1], mine[i][3])]

\* reservationsMap.get(inv).pembayaran.push({...}) for each row, then
\* deleteMany({}) and insertMany(finalData)
MigratedWithPayments(invs, rows) ==
  {[d EXCEPT !.pembayaran = PaymentsOf(d.nomorInvoice.s, rows)] :
     d \in Migrated(invs)}

\* reservations.csv ('Nomor Invoice') with payments.csv (INV, 'No Kwitansi')
PaymentFiles ==
  {[invs |-> <<Inv06(<<"0", "0", "0", "1">>), Inv06(<<"0", "0", "0", "2">>)>>,
    rows |-> <<<<Inv06(<<"0", "0", "0", "1">>), Nota06(<<"0", "0", "0", "1">>)>>,
               <<Inv06(<<"0", "0", "0", "2">>), Nota06(<<"0", "0", "0", "2">>)>> >>],
   [invs |-> <<Inv(May2025, <<"0", "0", "0", "2">>), Inv06(<<"0", "0", "0", "1">>)>>,
    rows |-> <<<<Inv(May2025, <<"0", "0", "0", "2">>),
                 Nota(May2025, <<"0", "0", "0", "3">>)>>,
               <<Inv(May2025, <<"0", "0", "0", "2">>), Nota06(<<"0", "0", "0", "1">>)>>,
               <<Inv06(<<"0", "0", "0", "1">>), Nota06(<<"0", "0", "0", "2">>)>> >>]}

InitReceipts ==
  /\ store \in {MigratedWithPayments(f.invs, f.rows) : f \in PaymentFiles}
  /\ clock = StartClock
  /\ req = [r \in Slots |-> Idle]
  /\ nextOid = 0
  /\ last = NoResponse
  /\ issued = <<>>
  /\ script = NotRun
  /\ pending = [r \in Slots |-> NoAppend]
  /\ listed = NoPages
  /\ addonsCollection = {}
  /\ paymentsCollection = {}

\* a payment whose receipt identifier the client made for the month after
\* the server's (the client's clock is ahead of the server's at month end)
AheadBodies ==
  {[jumlah |-> JNum(5), tanggal |-> JStr(<<"2">>),
    nomorKwitansi |-> JStr(Nota(July2025, <<"0", "0", "0", "1">>))]}

\* creates and payments, one request at a time, on a collection imported
\* with its payments
NextReceipts ==
  \/ Tick
  \/ CreateNext({1}, PlainBodies)
  \/ AddPaymentNext(StoredIds, AheadBodies, {FALSE})

SpecReceipts == InitReceipts /\ [][NextReceipts]_vars
(***************************************************************************)
(* Collections written by the restructuring migration (src/migrate.js):    *)
(* add-ons and payments are documents of their own collections, tied to a  *)
(* reservation by reservationId                                            *)
(***************************************************************************)
\* reservationDoc of a row of reservations.csv; it has no array of add-ons
\* or payments, which the handlers treat as an empty one
ReservationDoc(k, inv) == MigratedDoc(k, inv)

\* mutant of AllReservationsToInsert: one document per distinct invoice, the
\* first row of each
AllReservationsToInsert_First(invs) ==
  {ReservationDoc(k, invs[k]) :
     k \in {i \in 1..Len(invs) : \A j \in 1..(i - 1) : invs[j] # invs[i]}}

\* allReservationsToInsert: one document per row
AllReservationsToInsert(invs) ==
  {ReservationDoc(k, invs[k]) : k \in 1..Len(invs)}

\* reservationsMap.has(inv)
MapHas(invs, inv) == \E k \in 1..Len(invs) : invs[k] = inv

\* reservationsMap.get(inv): the reservationId set by the last row with inv
MapGet(invs, inv) ==
  ObjId(0 - (CHOOSE k \in 1..Len(invs) :
               /\ invs[k] = inv
               /\ \A j \in (k + 1)..Len(invs) : invs[j] # inv))

\* allAddonsToInsert: a document per row of addons.csv whose invoice is known
AllAddonsToInsert(invs, addonRows) ==
  {[_id |-> ObjId(0 - 20 - i), reservationId |-> MapGet(invs, addonRows[i])] :
     i \in {j \in 1..Len(addonRows) : MapHas(invs, addonRows[j])}}

\* allPaymentsToInsert: a document per row of payments.csv whose invoice is
\* known
AllPaymentsToInsert(invs, rows) ==
  {[_id |-> ObjId(0 - 10 - i), reservationId |-> MapGet(invs, rows[i][1]),
    nomorKwitansi |-> JStr(rows[i][2])] :
     i \in {j \in 1..Len(rows) : MapHas(invs, rows[j][1])}}

\* reservations.csv, addons.csv ('No INV') and payments.csv
RestructureFiles ==
  {[invs |-> f.invs, addons |-> a, rows |-> f.rows] :
     f \in PaymentFiles,
     a \in {<<>>, <<Inv06(<<"0", "0", "0", "1">>), Inv06(<<"0", "0", "0", "1">>)>>}}

\* the three collections after migrate() has completed
InitRestructured ==
  /\ \E f \in RestructureFiles :
        /\ store = AllReservationsToInsert(f.invs)
        /\ addonsCollection = AllAddonsToInsert(f.invs, f.addons)
        /\ paymentsCollection = AllPaymentsToInsert(f.invs, f.rows)
  /\ clock = StartClock
  /\ req = [r \in Slots |-> Idle]
  /\ nextOid = 0
  /\ last = NoResponse
  /\ issued = <<>>
  /\ script = NotRun
  /\ pending = [r \in Slots |-> NoAppend]
  /\ listed = NoPages

\* creates, and deletes that succeed or fail, on the restructured collections
NextRestructured ==
  \/ Tick
  \/ CreateNext({1}, PlainBodies)
  \/ DeleteNext(StoredIds, {FALSE, TRUE})

SpecRestructured == InitRestructured /\ [][NextRestructured]_vars

\* creates and payments with and without a receipt identifier, one request
\* at a time, on a collection imported with its payments
NextAbsent ==
  \/ Tick
  \/ CreateNext({1}, PlainBodies)
  \/ AddPaymentNext(StoredIds, PaymentBodies, {FALSE})

SpecAbsent == InitReceipts /\ [][NextAbsent]_vars

\* updates with every kind of id and body, succeeding or failing, on a
\* collection imported with its payments
NextFrame ==
  \/ Tick
  \/ UpdateNext(PathIds, UpdateBodies, {FALSE, TRUE})

SpecFrame == InitReceipts /\ [][NextFrame]_vars

\* creates whose store calls succeed or fail, add-ons that succeed or fail,
\* and the other handlers on stored ids with a store call that fails
NextStoreErrors ==
  \/ CreateNext({1}, PlainBodies)
  \/ CreateErrorNext({1})
  \/ AddAddonNext(StoredIds, AddonBodies, {FALSE, TRUE})
  \/ AddPaymentNext(StoredIds, PaymentBodies, {TRUE})
  \/ UpdateNext(StoredIds, UpdateBodies, {TRUE})
  \/ DeleteNext(StoredIds, {TRUE})
  \/ GetNext(StoredIds, {TRUE})

SpecStoreErrors == Init /\ [][NextStoreErrors]_vars

(***************************************************************************)
(* Add-on and add-payment requests in flight: the handler validates and    *)
(* builds the child, then awaits its one store call, while other requests  *)
(* are served                                                              *)
(***************************************************************************)
\* the handler of an append request runs up to its await: 400 on a malformed
\* id or an incomplete body, else the child is built and updateOne is issued
AppendStart(r, id, field, body) ==
  /\ pending[r].pc = "idle"
  /\ IF \/ ~IsValid(id)
        \/ field = "addons"
            /\ (\/ Falsy(body.item) \/ body.pax.t = "undefined"
                \/ body.hargaPerPax.t = "undefined"
                \/ body.subTotal.t = "undefined")
        \/ field = "pembayaran" /\ (Falsy(body.jumlah) \/ Falsy(body.tanggal))
     THEN /\ last' = [op |-> IF field = "addons" THEN "addon" ELSE "payment",
                      status |-> 400, id |-> id]
          /\ UNCHANGED <<pending, nextOid>>
     ELSE /\ nextOid < MaxOid
          /\ nextOid' = nextOid + 1
          /\ pending' = [pending EXCEPT ![r] =
               [pc |-> "updateOne", id |-> id, field |-> field,
                child |-> IF field = "addons" THEN NewAddon(nextOid + 1, body)
                          ELSE NewPayment(nextOid + 1, body),
                status |-> 0,
                overlaps |-> {q \in Slots : /\ pending[q].pc = "updateOne"
                                            /\ pending[q].id = id}]]
          /\ UNCHANGED last
  /\ UNCHANGED <<store, clock, req, issued>>
  /\ UNCHANGED <<addonsCollection, paymentsCollection, script, listed>>

\* the store executes the updateOne of the request, or fails; the handler
\* answers 201, 404 or 500
AppendUpdateOne(r, fails) ==
  /\ pending[r].pc = "updateOne"
  /\ LET p == pending[r]
         status == IF fails THEN 500
                   ELSE IF ById(store, p.id) = {} THEN 404 ELSE 201
     IN /\ store' = IF status = 201 THEN Push(store, p.id, p.field, p.child)
                    ELSE store
        /\ last' = [op |-> IF p.field = "addons" THEN "addon" ELSE "payment",
                    status |-> status, id |-> p.id]
        /\ pending' = [pending EXCEPT ![r].pc = "done", ![r].status = status]
  /\ UNCHANGED <<clock, req, nextOid, issued>>
  /\ UNCHANGED <<addonsCollection, paymentsCollection, script, listed>>

\* append requests, as many as there are slots, in flight together against
\* the reservations of a collection imported with its payments
NextAppends ==
  \/ \E r \in Slots, id \in StoredIds, body \in AddonBodies :
        AppendStart(r, id, "addons", body)
  \/ \E r \in Slots, id \in StoredIds :
        \E body \in {b \in PaymentBodies : b.nomorKwitansi.t = "undefined"} :
           AppendStart(r, id, "pembayaran", body)
  \/ \E r \in Slots, fails \in BOOLEAN : AppendUpdateOne(r, fails)

SpecAppends == InitReceipts /\ [][NextAppends]_vars

(***************************************************************************)
(* A run of the restructuring migration script (src/migrate.js), one store *)
(* call at a time                                                          *)
(***************************************************************************)
\* the three collections as an earlier run of the script left them: either
\* empty, or one reservation with an add-on and a payment (every run makes
\* its ObjectIds anew, so these differ from the ones this run makes)
EarlierRuns ==
  {[reservations |-> {}, addons |-> {}, payments |-> {}],
   [reservations |-> {ReservationDoc(41, Inv06(<<"0", "0", "0", "7">>))},
    addons |-> {[_id |-> ObjId(0 - 61), reservationId |-> ObjId(0 - 41)]},
    payments |-> {[_id |-> ObjId(0 - 51), reservationId |-> ObjId(0 - 41),
                   nomorKwitansi |-> JStr(Nota06(<<"0", "0", "0", "7">>))]}]}

\* reservations.csv, addons.csv and payments.csv of the run: an invoice on
\* two rows with child rows of an invoice that is not in reservations.csv,
\* two invoices with one payment, and a reservations.csv without rows
MigrationFiles ==
  {[invs |-> <<Inv06(<<"0", "0", "0", "1">>), Inv06(<<"0", "0", "0", "1">>)>>,
    addons |-> <<Inv06(<<"0", "0", "0", "1">>), Inv06(<<"0", "0", "0", "9">>)>>,
    rows |-> <<<<Inv06(<<"0", "0", "0", "1">>), Nota06(<<"0", "0", "0", "1">>)>>,
               <<Inv06(<<"0", "0", "0", "9">>), Nota06(<<"0", "0", "0", "2">>)>> >>],
   [invs |-> <<Inv06(<<"0", "0", "0", "1">>), Inv06(<<"0", "0", "0", "2">>)>>,
    addons |-> <<>>,
    rows |-> <<<<Inv06(<<"0", "0", "0", "2">>), Nota06(<<"0", "0", "0", "1">>)>> >>],
   [invs |-> <<>>,
    addons |-> <<Inv06(<<"0", "0", "0", "1">>)>>,
    rows |-> <<>>]}

\* the database before the script is started
InitMigration ==
  /\ \E c \in EarlierRuns :
        /\ store = c.reservations
        /\ addonsCollection = c.addons
        /\ paymentsCollection = c.payments
  /\ clock = StartClock
  /\ req = [r \in Slots |-> Idle]
  /\ nextOid = 0
  /\ last = NoResponse
  /\ issued = <<>>
  /\ script = NotRun
  /\ pending = [r \in Slots |-> NoAppend]
  /\ listed = NoPages

\* the script after its catch block has logged the error thrown at pc
Caught == [script EXCEPT !.pc = "close", !.outcome = "failed", !.at = script.pc]

\* node migrate.js: without MONGO_URI the script exits with status 1 before
\* migrate() is called; with it, migrate() is called and connects
MigrateStart(f, configured) ==
  /\ script.pc = "none"
  /\ script' =
       [pc |-> IF configured THEN "connect" ELSE "exited",
        outcome |-> IF configured THEN "running" ELSE "unconfigured",
        at |-> "none",
        exit |-> IF configured THEN 0 - 1 ELSE 1,
        f |-> f,
        before |-> [reservations |-> store, addons |-> addonsCollection,
                    payments |-> paymentsCollection]]
  /\ UNCHANGED <<store, addonsCollection, paymentsCollection>>
  /\ UNCHANGED <<clock, req, nextOid, last, issued, pending, listed>>

\* await client.connect()
MigrateConnect(fails) ==
  /\ script.pc = "connect"
  /\ script' = IF fails THEN Caught ELSE [script EXCEPT !.pc = "read"]
  /\ UNCHANGED <<store, addonsCollection, paymentsCollection>>
  /\ UNCHANGED <<clock, req, nextOid, last, issued, pending, listed>>

\* await Promise.all([readCsv(...), readCsv(...), readCsv(...)]), then the
\* three loops that build the documents in memory
MigrateRead(fails) ==
  /\ script.pc = "read"
  /\ script' = IF fails THEN Caught
               ELSE [script EXCEPT !.pc = "deleteReservations"]
  /\ UNCHANGED <<store, addonsCollection, paymentsCollection>>
  /\ UNCHANGED <<clock, req, nextOid, last, issued, pending, listed>>

\* mutant of MigrateDeleteMany: the call leaves the collection as it is
MigrateDeleteMany_Kept(fails) ==
  /\ script.pc \in {"deleteReservations", "deleteAddons", "deletePayments"}
  /\ script' =
       IF fails THEN Caught
       ELSE [script EXCEPT !.pc =
               CASE script.pc = "deleteReservations" -> "deleteAddons"
                 [] script.pc = "deleteAddons" -> "deletePayments"
                 [] OTHER -> "insertReservations"]
  /\ UNCHANGED <<store, addonsCollection, paymentsCollection>>
  /\ UNCHANGED <<clock, req, nextOid, last, issued, pending, listed>>

\* await reservationsCollection.deleteMany({}), then the same on addons and
\* on payments
MigrateDeleteMany(fails) ==
  /\ script.pc \in {"deleteReservations", "deleteAddons", "deletePayments"}
  /\ IF fails
     THEN /\ script' = Caught
          /\ UNCHANGED <<store, addonsCollection, paymentsCollection>>
     ELSE CASE script.pc = "deleteReservations" ->
                 /\ store' = {}
                 /\ script' = [script EXCEPT !.pc = "deleteAddons"]
                 /\ UNCHANGED <<addonsCollection, paymentsCollection>>
            [] script.pc = "deleteAddons" ->
                 /\ addonsCollection' = {}
                 /\ script' = [script EXCEPT !.pc = "deletePayments"]
                 /\ UNCHANGED <<store, paymentsCollection>>
            [] OTHER ->
                 /\ paymentsCollection' = {}
                 /\ script' = [script EXCEPT !.pc = "insertReservations"]
                 /\ UNCHANGED <<store, addonsCollection>>
  /\ UNCHANGED <<clock, req, nextOid, last, issued, pending, listed>>

\* the documents the pending insertMany is to write
ToInsert ==
  CASE script.pc = "insertReservations" -> AllReservationsToInsert(script.f.invs)
    [] script.pc = "insertAddons" ->
         AllAddonsToInsert(script.f.invs, script.f.addons)
    [] OTHER -> AllPaymentsToInsert(script.f.invs, script.f.rows)

\* if (list.length > 0) await collection.insertMany(list), for the three
\* lists in turn: an empty list makes no call; a call that fails has written
\* some of its documents, not all
MigrateInsertMany(fails) ==
  /\ script.pc \in {"insertReservations", "insertAddons", "insertPayments"}
  /\ fails => ToInsert # {}
  /\ \E written \in IF fails THEN (SUBSET ToInsert) \ {ToInsert} ELSE {ToInsert} :
        CASE script.pc = "insertReservations" ->
               /\ store' = store \cup written
               /\ UNCHANGED <<addonsCollection, paymentsCollection>>
          [] script.pc = "insertAddons" ->
               /\ addonsCollection' = addonsCollection \cup written
               /\ UNCHANGED <<store, paymentsCollection>>
          [] OTHER ->
               /\ paymentsCollection' = paymentsCollection \cup written
               /\ UNCHANGED <<store, addonsCollection>>
  /\ script' =
       IF fails THEN Caught
       ELSE CASE script.pc = "insertReservations" ->
                   [script EXCEPT !.pc = "insertAddons"]
              [] script.pc = "insertAddons" ->
                   [script EXCEPT !.pc = "insertPayments"]
              [] OTHER -> [script EXCEPT !.pc = "close", !.outcome = "complete"]
  /\ UNCHANGED <<clock, req, nextOid, last, issued, pending, listed>>

\* finally { await client.close() }: migrate() returns, nothing sets an exit
\* code, and the process ends with status 0
MigrateClose ==
  /\ script.pc = "close"
  /\ script' = [script EXCEPT !.pc = "exited", !.exit = 0]
  /\ UNCHANGED <<store, addonsCollection, paymentsCollection>>
  /\ UNCHANGED <<clock, req, nextOid, last, issued, pending, listed>>

\* one run of the script, each store call succeeding or failing
NextMigration ==
  \/ \E f \in MigrationFiles, configured \in BOOLEAN : MigrateStart(f, configured)
  \/ \E fails \in BOOLEAN : MigrateConnect(fails)
  \/ \E fails \in BOOLEAN : MigrateRead(fails)
  \/ \E fails \in BOOLEAN : MigrateDeleteMany(fails)
  \/ \E fails \in BOOLEAN : MigrateInsertMany(fails)
  \/ MigrateClose

SpecMigration == InitMigration /\ [][NextMigration]_vars

(***************************************************************************)
(* Runs of the update-only migration script (src/unnamed/part_002), which  *)
(* refills the two arrays of the reservations from addons.csv and          *)
(* payments.csv, one store call at a time                                  *)
(***************************************************************************)
\* a cell of the column 'Tanggal', by what parseDate makes of it: empty, a
\* date (day-month-year, or a text new Date() can read), or another text
EmptyCell == [t |-> "empty", n |-> 0]
DateCell(n) == [t |-> "date", n |-> n]
TextCell == [t |-> "text", n |-> 0]

\* the date null
NullDate == 0 - 2

\* parseDate(dateStr): null for an empty cell, the date of a cell that holds
\* one, and new Date(), the time of the call, for any other text
ParseDate(cell, now) ==
  CASE cell.t = "empty" -> NullDate
    [] cell.t = "date" -> cell.n
    [] OTHER -> now

\* addons.csv ('No INV') and payments.csv (INV, 'No Kwitansi', 'Tanggal')
UpdateOnlyFiles ==
  {[addons |-> <<Inv06(<<"0", "0", "0", "1">>)>>,
    rows |-> <<<<Inv06(<<"0", "0", "0", "1">>), Nota06(<<"0", "0", "0", "1">>),
                 DateCell(StartClock)>>,
               <<Inv06(<<"0", "0", "0", "1">>), Nota06(<<"0", "0", "0", "2">>),
                 TextCell>> >>],
   [addons |-> <<Inv06(<<"0", "0", "0", "1">>), Inv06(<<"0", "0", "0", "9">>)>>,
    rows |-> <<<<Inv06(<<"0", "0", "0", "2">>), Nota06(<<"0", "0", "0", "1">>),
                 EmptyCell>> >>]}

\* the ObjectId the script makes in a run for a row of one of the two files
ScriptOid(run, file, i) == ObjId(0 - (100 * run + 10 * file + i))

\* const newAddon = { ... } of a row of addons.csv
RowAddon(run, i) ==
  [_id |-> ScriptOid(run, 2, i), item |-> JStr(<<"A">>), pax |-> 0]

\* const newPayment = { ... } of a row of payments.csv
RowPayment(run, i, row, now) ==
  [_id |-> ScriptOid(run, 1, i), nomorKwitansi |-> JStr(row[2]), jumlah |-> 5,
   tanggal |-> ParseDate(row[3], now)]

\* updateMany({}, { $set: { addons: [], pembayaran: [] } })
ClearArrays(docs) ==
  {[d EXCEPT !.addons = <<>>, !.pembayaran = <<>>] : d \in docs}

\* updateOne({ nomorInvoice: inv }, { $push: { field: child } }): the first
\* document the store finds with the invoice, if there is one
PushByInvoice(docs, inv, field, child) ==
  LET found == {d \in docs : d.nomorInvoice = JStr(inv)}
  IN IF found = {} THEN docs
     ELSE Push(docs, PathId(TRUE, (CHOOSE d \in found : TRUE)._id.n), field, child)

\* what the reservations hold, without the _id (and createdAt) of the
\* children
Contents(docs) ==
  {[_id |-> d._id,
    addons |-> [i \in 1..Len(d.addons) |->
                  [item |-> d.addons[i].item, pax |-> d.addons[i].pax]],
    pembayaran |-> [i \in 1..Len(d.pembayaran) |->
                      [nomorKwitansi |-> d.pembayaran[i].nomorKwitansi,
                       jumlah |-> d.pembayaran[i].jumlah,
                       tanggal |-> d.pembayaran[i].tanggal]]] : d \in docs}

\* the script has not completed a run
NoContents == {[_id |-> JUndef]}

\* the script after its catch block has logged the error
UpdateOnlyCaught == [script EXCEPT !.pc = "close", !.outcome = "failed"]

\* node migrate.js, a first time, and a second time on the same two files
\* after the first run has ended
UpdateOnlyStart(f) ==
  /\ \/ script.pc = "none"
     \/ script.pc = "exited" /\ script.run = 1 /\ script.f = f
  /\ script' =
       [pc |-> "connect", outcome |-> "running", f |-> f, i |-> 1,
        run |-> IF script.pc = "none" THEN 1 ELSE 2,
        first |-> IF script.pc = "none" THEN NoContents ELSE script.first]
  /\ UNCHANGED <<store, clock, req, nextOid, last, issued>>
  /\ UNCHANGED <<addonsCollection, paymentsCollection, pending, listed>>

\* await client.connect()
UpdateOnlyConnect(fails) ==
  /\ script.pc = "connect"
  /\ script' = IF fails THEN UpdateOnlyCaught ELSE [script EXCEPT !.pc = "read"]
  /\ UNCHANGED <<store, clock, req, nextOid, last, issued>>
  /\ UNCHANGED <<addonsCollection, paymentsCollection, pending, listed>>

\* await Promise.all([readCsv(...), readCsv(...)])
UpdateOnlyRead(fails) ==
  /\ script.pc = "read"
  /\ script' = IF fails THEN UpdateOnlyCaught ELSE [script EXCEPT !.pc = "clear"]
  /\ UNCHANGED <<store, clock, req, nextOid, last, issued>>
  /\ UNCHANGED <<addonsCollection, paymentsCollection, pending, listed>>

\* await collection.updateMany(...): both arrays of every reservation are
\* emptied
UpdateOnlyClear(fails) ==
  /\ script.pc = "clear"
  /\ IF fails
     THEN /\ script' = UpdateOnlyCaught
          /\ UNCHANGED store
     ELSE /\ store' = ClearArrays(store)
          /\ script' = [script EXCEPT
               !.pc = IF script.f.addons = <<>> THEN "payments" ELSE "addons"]
  /\ UNCHANGED <<clock, req, nextOid, last, issued>>
  /\ UNCHANGED <<addonsCollection, paymentsCollection, pending, listed>>

\* one round of the loop over addons.csv
UpdateOnlyAddon(fails) ==
  /\ script.pc = "addons"
  /\ IF fails
     THEN /\ script' = UpdateOnlyCaught
          /\ UNCHANGED store
     ELSE /\ store' = PushByInvoice(store, script.f.addons[script.i], "addons",
                                    RowAddon(script.run, script.i))
          /\ script' = IF script.i < Len(script.f.addons)
                       THEN [script EXCEPT !.i = @ + 1]
                       ELSE [script EXCEPT !.pc = "payments", !.i = 1]
  /\ UNCHANGED <<clock, req, nextOid, last, issued>>
  /\ UNCHANGED <<addonsCollection, paymentsCollection, pending, listed>>

\* one round of the loop over payments.csv
UpdateOnlyPayment(fails) ==
  /\ script.pc = "payments"
  /\ IF fails
     THEN /\ script' = UpdateOnlyCaught
          /\ UNCHANGED store
     ELSE /\ store' = PushByInvoice(store, script.f.rows[script.i][1], "pembayaran",
                         RowPayment(script.run, script.i, script.f.rows[script.i],
                                    clock))
          /\ script' = IF script.i < Len(script.f.rows)
                       THEN [script EXCEPT !.i = @ + 1]
                       ELSE [script EXCEPT !.pc = "close", !.outcome = "complete"]
  /\ UNCHANGED <<clock, req, nextOid, last, issued>>
  /\ UNCHANGED <<addonsCollection, paymentsCollection, pending, listed>>

\* finally { await client.close() }; the run ends, and what a first complete
\* run has left is kept for comparison
UpdateOnlyClose ==
  /\ script.pc = "close"
  /\ script' = [script EXCEPT
       !.pc = "exited",
       !.first = IF script.run = 1 /\ script.outcome = "complete"
                 THEN Contents(store) ELSE @]
  /\ UNCHANGED <<store, clock, req, nextOid, last, issued>>
  /\ UNCHANGED <<addonsCollection, paymentsCollection, pending, listed>>

\* the script is run and run again while time passes
NextUpdateOnly ==
  \/ Tick
  \/ \E f \in UpdateOnlyFiles : UpdateOnlyStart(f)
  \/ \E fails \in BOOLEAN : UpdateOnlyConnect(fails)
  \/ \E fails \in BOOLEAN : UpdateOnlyRead(fails)
  \/ \E fails \in BOOLEAN : UpdateOnlyClear(fails)
  \/ \E fails \in BOOLEAN : UpdateOnlyAddon(fails)
  \/ \E fails \in BOOLEAN : UpdateOnlyPayment(fails)
  \/ UpdateOnlyClose

SpecUpdateOnly == InitReceipts /\ [][NextUpdateOnly]_vars

(***************************************************************************)
(* GET /api/reservations                                                   *)
(***************************************************************************)
\* { $regex: search, $options: 'i' } on a text without letters: the text
\* holds the search text somewhere
Contains(s, sub) ==
  \E i \in 0..(Len(s) - Len(sub)) : SubSeq(s, i + 1, i + Len(sub)) = sub

\* find(query): every document when search is empty, else those whose
\* nomorInvoice (searchBy) matches
Matching(docs, search) ==
  IF search = <<>> THEN docs
  ELSE {d \in docs : IsStr(d.nomorInvoice) /\ Contains(d.nomorInvoice.s, search)}

\* the sort key of d is not greater than that of e
KeyLeq(d, e, sort) ==
  IF sort = "nomorInvoice" THEN StrLeq(d.nomorInvoice.s, e.nomorInvoice.s)
  ELSE d.tanggalEvent <= e.tanggalEvent

\* sort({ [sort]: sortOrder }): the orders the store may return the
\* documents in; it puts documents with equal keys in any order
SortedOrders(docs, sort, sortOrder) ==
  {seq \in [1..Cardinality(docs) -> docs] :
     /\ \A i, j \in 1..Cardinality(docs) : i # j => seq[i] # seq[j]
     /\ \A i, j \in 1..Cardinality(docs) :
           i < j => IF sortOrder = 1 THEN KeyLeq(seq[i], seq[j], sort)
                    ELSE KeyLeq(seq[j], seq[i], sort)}

\* limit(parseInt(limit)).skip((page - 1) * limit) on a sorted result
PageOf(seq, page, limit) ==
  LET skip == (page - 1) * limit
      end == IF skip + limit < Len(seq) THEN skip + limit ELSE Len(seq)
  IN SubSeq(seq, skip + 1, end)

\* Math.ceil(total / limit)
TotalPages(total, limit) == (total + limit - 1) \div limit

\* the pages answered so far for one query and limit, with the page just
\* answered
Noted(query, totalPages, page, data) ==
  IF listed # NoPages /\ listed.query = query
  THEN [listed EXCEPT !.pages =
          [p \in DOMAIN listed.pages \cup {page} |->
             IF p = page THEN data ELSE listed.pages[p]]]
  ELSE [query |-> query, totalPages |-> totalPages,
        pages |-> [p \in {page} |-> data]]

\* GET /api/reservations?search=&page=&limit=&sort=&order=
List(search, page, limit, sort, order, fails) ==
  /\ IF fails
     THEN /\ last' = [op |-> "list", status |-> 500]
          /\ UNCHANGED listed
     ELSE \E seq \in SortedOrders(Matching(store, search), sort,
                                  IF order = "asc" THEN 1 ELSE 0 - 1) :
            LET data == PageOf(seq, page, limit)
                total == Cardinality(Matching(store, search))
                query == [search |-> search, limit |-> limit, sort |-> sort,
                          order |-> order]
            IN /\ last' = [op |-> "list", status |-> 200, data |-> data,
                           total |-> total, page |-> page, limit |-> limit,
                           totalPages |-> TotalPages(total, limit)]
               /\ listed' = Noted(query, TotalPages(total, limit), page, data)
  /\ UNCHANGED <<store, clock, req, nextOid, issued>>
  /\ UNCHANGED <<addonsCollection, paymentsCollection, script, pending>>

\* the greatest page and limit of a request
MaxPage == 3
MaxLimit == 2

\* reservations by their event dates, in days
Events(dates) ==
  LET invs == <<Inv06(<<"0", "0", "0", "1">>), Inv06(<<"0", "0", "0", "2">>),
                Inv(May2025, <<"0", "0", "0", "3">>)>>
  IN {[MigratedDoc(k, invs[k]) EXCEPT !.tanggalEvent = dates[k]] :
        k \in 1..Len(dates)}

\* collections with events on one day and on different days
InitListed ==
  /\ store \in {Events(<<1, 1>>), Events(<<1, 1, 2>>), Events(<<3, 2, 1>>)}
  /\ clock = StartClock
  /\ req = [r \in Slots |-> Idle]
  /\ nextOid = 0
  /\ last = NoResponse
  /\ issued = <<>>
  /\ addonsCollection = {}
  /\ paymentsCollection = {}
  /\ script = NotRun
  /\ pending = [r \in Slots |-> NoAppend]
  /\ listed = NoPages

\* list requests on a collection that does not change
NextListed ==
  \E search \in {<<>>, <<"0", "6">>}, page \in 1..MaxPage, limit \in 1..MaxLimit,
     sort \in {"tanggalEvent", "nomorInvoice"}, order \in {"asc", "desc"},
     fails \in BOOLEAN :
       List(search, page, limit, sort, order, fails)

SpecListed == InitListed /\ [][NextListed]_vars

\* bodies of create-reservation by their deposit: missing, positive, zero,
\* negative, and a text that is no number
DepositBodies ==
  {[_id |-> JUndef, nomorInvoice |-> JUndef, dp |-> dp] :
     dp \in {JUndef, JNum(5), JNum(0), JNum(0 - 5), JStr(<<"a">>)}}

\* creates, one request at a time, with every kind of deposit
NextDeposits ==
  \/ Tick
  \/ CreateNext({1}, DepositBodies)

SpecDeposits == Init /\ [][NextDeposits]_vars

\* creates, one request at a time, whose store calls may fail
NextFailures ==
  \/ Tick
  \/ CreateNext({1}, PlainBodies \cup IdBodies)
  \/ CreateErrorNext({1})

SpecFailures == Init /\ [][NextFailures]_vars

\* a body of update-reservation that carries an array of add-ons with one
\* element, as a client sends a reservation it holds
ArrayBodies ==
  {[_id |-> JUndef, nomorInvoice |-> JUndef, dp |-> JNum(5),
    addons |-> Array(<<[_id |-> JStr(<<"a">>), item |-> JStr(<<"A">>),
                        pax |-> 2]>>),
    pembayaran |-> NoArray]}

\* creates, updates, add-ons and payments, one request at a time
NextUpdates ==
  \/ Tick
  \/ CreateNext({1}, PlainBodies)
  \/ UpdateNext(StoredIds, UpdateBodies \cup ArrayBodies, {FALSE})
  \/ AddAddonNext(StoredIds, AddonBodies, {FALSE})
  \/ AddPaymentNext(StoredIds, PaymentBodies, {FALSE})

SpecUpdates == Init /\ [][NextUpdates]_vars

\* the server starts on a collection imported from a file of one row
InitOneRow ==
  /\ store = Migrated(<<Inv06(<<"0", "0", "0", "1">>)>>)
  /\ clock = StartClock
  /\ req = [r \in Slots |-> Idle]
  /\ nextOid = 0
  /\ last = NoResponse
  /\ issued = <<>>
  /\ script = NotRun
  /\ pending = [r \in Slots |-> NoAppend]
  /\ listed = NoPages
  /\ addonsCollection = {}
  /\ paymentsCollection = {}

\* every handler on /api/reservations/:id, one request at a time, called
\* with malformed ids, with ids of no document and with ids of documents,
\* its store call succeeding or failing
NextRequests ==
  \/ GetNext(PathIds, {FALSE, TRUE})
  \/ UpdateNext(PathIds, UpdateBodies, {FALSE, TRUE})
  \/ DeleteNext(PathIds, {FALSE, TRUE})
  \/ AddAddonNext(PathIds, AddonBodies, {FALSE, TRUE})
  \/ AddPaymentNext(PathIds, PaymentBodies, {FALSE, TRUE})

SpecRequests == InitOneRow /\ [][NextRequests]_vars

\* bodies of create-reservation by their numeric fields: all numbers, all
\* missing, all texts that are no number
NumericBodies ==
  {[_id |-> JUndef, nomorInvoice |-> JUndef, dp |-> JNum(5), pax |-> JNum(2),
    hargaPerPax |-> JNum(3), subTotal |-> JNum(6)],
   [_id |-> JUndef, nomorInvoice |-> JUndef, dp |-> JUndef],
   [_id |-> JUndef, nomorInvoice |-> JUndef, dp |-> JStr(<<"a">>),
    pax |-> JStr(<<"a">>), hargaPerPax |-> JStr(<<"a">>),
    subTotal |-> JStr(<<"a">>)]}

\* creates, one request at a time, with every kind of numeric field
NextNumeric ==
  \/ Tick
  \/ CreateNext({1}, NumericBodies)

SpecNumeric == Init /\ [][NextNumeric]_vars

(***************************************************************************)
(* Vocabulary of the properties                                            *)
(***************************************************************************)
\* the decimal digit of n at the place p (1, 10, 100, ...)
DigitAt(n, p) == Digit[((n \div p) % 10) + 1]

\* NNNN: a sequence number in decimal, zero-padded to 4 digits, 5 digits
\* from 10000 on
SeqDigits(n) ==
  IF n < 10000
  THEN <<DigitAt(n, 1000), DigitAt(n, 100), DigitAt(n, 10), DigitAt(n, 1)>>
  ELSE <<DigitAt(n, 10000), DigitAt(n, 1000), DigitAt(n, 100), DigitAt(n, 10),
         DigitAt(n, 1)>>

\* {YYYY}/{MM} of a clock value
YearMonth(now) ==
  LET y == now \div 12
      m == (now % 12) + 1
  IN <<DigitAt(y, 1000), DigitAt(y, 100), DigitAt(y, 10), DigitAt(y, 1), "/",
       DigitAt(m, 10), DigitAt(m, 1)>>

\* INV/{YYYY}/{MM}-VE-
InvoiceScope(now) == <<"I", "N", "V", "/">> \o YearMonth(now) \o <<"-", "V", "E", "-">>

\* NOTA/{YYYY}/{MM}-SDP-
ReceiptScope(now) ==
  <<"N", "O", "T", "A", "/">> \o YearMonth(now) \o <<"-", "S", "D", "P", "-">>

\* INV/{YYYY}/{MM}-VE-{NNNN}
InvoiceId(now, n) == InvoiceScope(now) \o SeqDigits(n)

\* NOTA/{YYYY}/{MM}-SDP-{NNNN}
ReceiptId(now, n) == ReceiptScope(now) \o SeqDigits(n)

\* an identifier (a string) lies in a scope
HasScope(s, scope) == Len(s) >= Len(scope) /\ SubSeq(s, 1, Len(scope)) = scope

\* what follows the scope in an identifier of that scope
Suffix(s, scope) == SubSeq(s, Len(scope) + 1, Len(s))

\* the suffix is a number
Numeric(suffix) == suffix # <<>> /\ \A i \in 1..Len(suffix) : IsDigit(suffix[i])

\* the invoice identifiers of the reservations of a scope
InvoicesIn(docs, now) ==
  {d.nomorInvoice.s : d \in {e \in docs : /\ e.nomorInvoice.t = "string"
                                           /\ HasScope(e.nomorInvoice.s, InvoiceScope(now))}}

\* the sequence numbers of the well-formed invoices of a scope
SeqsIn(docs, now) ==
  {DigitsVal(Suffix(s, InvoiceScope(now))) :
     s \in {t \in InvoicesIn(docs, now) : Numeric(Suffix(t, InvoiceScope(now)))}}

\* the greatest number of a set of naturals, 0 for the empty set
Greatest(ns) == IF ns = {} THEN 0 ELSE CHOOSE n \in ns : \A m \in ns : m <= n

\* the step in which request r is allocated its invoice identifier, which is
\* req'[r].nomorInvoice
Allocates(r) ==
  /\ req[r].pc = "findInvoice"
  /\ req'[r].pc \in {"findKwitansi", "insert"}

\* request r has just been allocated its invoice identifier
Allocated(r) == req[r].pc \in {"findKwitansi", "insert"}

\* the clock values of a behaviour
Months == StartClock..(StartClock + MaxTicks)

(***************************************************************************)
(* C1. N concurrent create requests in one scope, whose scans and inserts  *)
(* interleave, persist N reservations with N pairwise distinct             *)
(* nomorInvoice values.                                                    *)
(***************************************************************************)
C1_DistinctUnderConcurrency ==
  \A d \in store : \A e \in store : d # e => d.nomorInvoice # e.nomorInvoice

(***************************************************************************)
(* C2. Within one scope, the sequence number allocated by each successful  *)
(* create is strictly greater than every sequence number allocated by an   *)
(* earlier successful create, whatever updates, deletes, add-ons and       *)
(* payments come in between.                                               *)
(***************************************************************************)
C2_Monotonic ==
  \A i \in 1..Len(issued) : \A j \in 1..Len(issued) :
     \A now \in Months :
        (/\ i < j
         /\ HasScope(issued[i], InvoiceScope(now))
         /\ HasScope(issued[j], InvoiceScope(now))
         /\ Numeric(Suffix(issued[i], InvoiceScope(now)))
         /\ Numeric(Suffix(issued[j], InvoiceScope(now))))
        => DigitsVal(Suffix(issued[i], InvoiceScope(now)))
             < DigitsVal(Suffix(issued[j], InvoiceScope(now)))

(***************************************************************************)
(* C3. A create executed in a (year, month) that has no reservation yet is *)
(* allocated sequence number 1, whatever the invoices of other months are. *)
(***************************************************************************)
C3_ScopeReset ==
  [][\A r \in Slots :
       (Allocates(r) /\ InvoicesIn(store, req[r].now) = {})
       => req'[r].nomorInvoice = InvoiceId(req[r].now, 1)]_vars

\* a request in July is allocated 0001 while June holds a greater number
C3_Witness ==
  \E r \in Slots :
     /\ Allocated(r)
     /\ req[r].now = StartClock + 1
     /\ InvoicesIn(store, req[r].now) = {}
     /\ req[r].nomorInvoice = InvoiceId(StartClock + 1, 1)
     /\ \E n \in SeqsIn(store, StartClock) : n > 1

(***************************************************************************)
(* C4. The identifier built is exactly INV/{YYYY}/{MM}-VE-{NNNN}: 0001 in  *)
(* a scope with no reservation, and k+1 zero-padded to 4 digits when the   *)
(* greatest existing identifier of the scope ends in the number k.         *)
(***************************************************************************)
C4_Format ==
  [][\A r \in Slots :
       Allocates(r) =>
         LET ids == InvoicesIn(store, req[r].now)
             scope == InvoiceScope(req[r].now)
         IN /\ ids = {} => req'[r].nomorInvoice = InvoiceId(req[r].now, 1)
            /\ \A g \in ids :
                 (/\ \A s \in ids : StrLeq(s, g)
                  /\ Numeric(Suffix(g, scope)))
                 => req'[r].nomorInvoice =
                      InvoiceId(req[r].now, DigitsVal(Suffix(g, scope)) + 1)]_vars

\* the prior maximum INV/2025/06-VE-0014 has given INV/2025/06-VE-0015
C4_Witness ==
  \E r \in Slots :
     /\ Allocated(r)
     /\ Greatest(SeqsIn(store, req[r].now)) = 14
     /\ req[r].nomorInvoice =
          <<"I", "N", "V", "/", "2", "0", "2", "5", "/", "0", "6", "-", "V", "E",
            "-", "0", "0", "1", "5">>

(***************************************************************************)
(* C5. In a scope that holds an invoice with a non-numeric suffix, create  *)
(* allocates the number it would allocate without that record: the         *)
(* greatest well-formed sequence number + 1, or 1 if there is none.        *)
(***************************************************************************)
C5_MalformedSkipped ==
  [][\A r \in Slots :
       (/\ Allocates(r)
        /\ \E s \in InvoicesIn(store, req[r].now) :
              ~Numeric(Suffix(s, InvoiceScope(req[r].now))))
       => req'[r].nomorInvoice =
            InvoiceId(req[r].now, Greatest(SeqsIn(store, req[r].now)) + 1)]_vars

(***************************************************************************)
(* C6. The sequence number allocated is the smallest positive integer that *)
(* no existing invoice of the scope carries, also after a reservation with *)
(* a non-maximal number has been deleted.                                  *)
(***************************************************************************)
SmallestUnused(ns) ==
  CHOOSE n \in 1..(Cardinality(ns) + 1) :
     n \notin ns /\ \A m \in 1..(n - 1) : m \in ns

C6_SmallestUnused ==
  [][\A r \in Slots :
       Allocates(r)
       => req'[r].nomorInvoice =
            InvoiceId(req[r].now, SmallestUnused(SeqsIn(store, req[r].now)))]_vars

\* C6, amended. In a scope whose invoices all end in 4 digits, the number
\* allocated is the greatest existing number + 1 (1 in an empty scope): a
\* number freed below the greatest one is not allocated again.
C6_GreatestPlusOne ==
  [][\A r \in Slots :
       (/\ Allocates(r)
        /\ \A s \in InvoicesIn(store, req[r].now) :
              /\ Numeric(Suffix(s, InvoiceScope(req[r].now)))
              /\ Len(Suffix(s, InvoiceScope(req[r].now))) = 4)
       => req'[r].nomorInvoice =
            InvoiceId(req[r].now, Greatest(SeqsIn(store, req[r].now)) + 1)]_vars

\* after the delete of a reservation whose number was not the greatest, a
\* request is allocated the greatest number + 1, not the freed number
C6_Witness ==
  \E r \in Slots :
     /\ Allocated(r)
     /\ last.op = "delete" /\ last.status = 200
     /\ \A s \in InvoicesIn(store, req[r].now) :
           /\ Numeric(Suffix(s, InvoiceScope(req[r].now)))
           /\ Len(Suffix(s, InvoiceScope(req[r].now))) = 4
     /\ \E i \in 1..Len(issued) :
           /\ HasScope(issued[i], InvoiceScope(req[r].now))
           /\ Numeric(Suffix(issued[i], InvoiceScope(req[r].now)))
           /\ issued[i] \notin InvoicesIn(store, req[r].now)
           /\ DigitsVal(Suffix(issued[i], InvoiceScope(req[r].now)))
                < Greatest(SeqsIn(store, req[r].now))
     /\ req[r].nomorInvoice =
          InvoiceId(req[r].now, Greatest(SeqsIn(store, req[r].now)) + 1)

(***************************************************************************)
(* C7. After creates that do not overlap, with no delete and no failed     *)
(* request, the sequence numbers present in each scope are exactly 1..k    *)
(* for the number k of reservations created in that scope.                 *)
(***************************************************************************)
CreatedIn(now) ==
  Cardinality({i \in 1..Len(issued) : HasScope(issued[i], InvoiceScope(now))})

C7_Prefix ==
  \A now \in Months : SeqsIn(store, now) = 1..CreatedIn(now)

(***************************************************************************)
(* C8. Allocation keeps working past 4 digits: the scan returns the        *)
(* identifier with the numerically greatest sequence number, so that after *)
(* 9999 come 10000 and then 10001.                                         *)
(***************************************************************************)
C8_PastFourDigits ==
  [][\A r \in Slots :
       (/\ Allocates(r)
        /\ InvoicesIn(store, req[r].now) # {}
        /\ \A s \in InvoicesIn(store, req[r].now) :
              Numeric(Suffix(s, InvoiceScope(req[r].now))))
       => req'[r].nomorInvoice =
            InvoiceId(req[r].now, Greatest(SeqsIn(store, req[r].now)) + 1)]_vars

(***************************************************************************)
(* C9. The nomorInvoice of the reservation a create persists is the one    *)
(* the allocator produced for that request, whatever the body carries.     *)
(***************************************************************************)
C9_StoredIsAllocated ==
  (last.op = "create" /\ last.status = 201)
  => /\ last.data \in store
     /\ last.data.nomorInvoice = JStr(last.nomorInvoice)

(***************************************************************************)
(* C10. Every payment persisted by add-payment carries a receipt           *)
(* identifier NOTA/{YYYY}/{MM}-SDP-{NNNN} allocated by the server: the     *)
(* greatest existing receipt number of the scope + 1.                      *)
(***************************************************************************)
\* the receipt numbers of a scope, over the payments of all reservations
ReceiptSeqsIn(docs, now) ==
  {DigitsVal(Suffix(k, ReceiptScope(now))) :
     k \in {j \in UNION {KwitansiStrings(d) : d \in docs} :
              /\ HasScope(j, ReceiptScope(now))
              /\ Numeric(Suffix(j, ReceiptScope(now)))}}

\* the step in which add-payment persists a payment, which is last'.data
PersistsPayment ==
  /\ last' # last
  /\ last'.op = "payment"
  /\ last'.status = 201

AllocatesReceipt(r) ==
  /\ req[r].pc = "findKwitansi"
  /\ req'[r].pc = "insert"

C11_ReceiptGreatestPlusOne ==
  [][\A r \in Slots :
       AllocatesReceipt(r)
       => req'[r].reservation.pembayaran[1].nomorKwitansi =
            JStr(ReceiptId(req[r].now,
                           Greatest(ReceiptSeqsIn(store, req[r].now)) + 1))]_vars

(***************************************************************************)
(* C12. A successful create persists exactly one payment, with jumlah the  *)
(* deposit and a receipt identifier allocated by the request that no other *)
(* payment carries, when dp is a number above zero; when dp is zero,       *)
(* negative, missing or no number it persists an empty payment list and    *)
(* dp = 0.                                                                 *)
(***************************************************************************)
\* the receipt identifiers carried by the payments of the other documents
OtherReceipts(d) == UNION {KwitansiStrings(e) : e \in store \ {d}}

C12_DepositPayment ==
  (last.op = "create" /\ last.status = 201)
  => LET d == last.data
         dp == last.body.dp
     IN /\ d \in store
        /\ IF dp.t = "number" /\ dp.n > 0
           THEN /\ Len(d.pembayaran) = 1
                /\ d.pembayaran[1].jumlah = dp.n
                /\ d.dp = dp.n
                /\ IsStr(d.pembayaran[1].nomorKwitansi)
                /\ HasScope(d.pembayaran[1].nomorKwitansi.s,
                            ReceiptScope(d.createdAt))
                /\ d.pembayaran[1].nomorKwitansi.s \notin OtherReceipts(d)
           ELSE d.pembayaran = <<>> /\ d.dp = 0

(***************************************************************************)
(* C13. After a delete call has returned, succeeded or failed, no add-on   *)
(* or payment of a reservation that no longer exists is present, and a     *)
(* failed delete leaves the reservation with all its children.             *)
(***************************************************************************)
\* the add-ons and payments kept outside their reservation
Children == addonsCollection \cup paymentsCollection

\* every child kept outside its reservation names an existing reservation
NoOrphans == \A c \in Children : \E d \in store : d._id = c.reservationId

\* a delete call returns, with the response last'
DeleteReturns ==
  /\ last' # last
  /\ last'.op = "delete"

C13_DeleteCascades ==
  [][DeleteReturns
     => /\ NoOrphans'
        /\ last'.status # 200
             => /\ store' = store
                /\ UNCHANGED <<addonsCollection, paymentsCollection>>]_vars

(***************************************************************************)
(* C14. A create that fails at the insert persists neither the reservation *)
(* nor its down payment and consumes no number: the create that follows it *)
(* in the same scope is allocated the invoice number the failed request    *)
(* had computed.                                                           *)
(***************************************************************************)
\* the step in which the insert of request r fails
FailsAtInsert(r) ==
  /\ req[r].pc = "insert"
  /\ req'[r].pc = "idle"
  /\ last'.op = "create"
  /\ last'.status = 500

\* the request answered last was a create that failed at its insert
FailedAtInsert ==
  /\ last.op = "create"
  /\ last.status = 500
  /\ last.at = "insert"

C14_FailedInsertConsumesNothing ==
  [][\A r \in Slots :
       /\ FailsAtInsert(r) => UNCHANGED <<store, issued>>
       /\ (/\ Allocates(r)
           /\ FailedAtInsert
           /\ HasScope(last.nomorInvoice, InvoiceScope(req[r].now)))
          => req'[r].nomorInvoice = last.nomorInvoice]_vars

\* after a create has failed at its insert, with one reservation stored
\* before it, the next request is allocated number 2 again and the
\* collection holds no trace of the failed one
C14_Witness ==
  \E r \in Slots :
     /\ Allocated(r)
     /\ FailedAtInsert
     /\ Cardinality(store) = 1
     /\ last.nomorInvoice = InvoiceId(req[r].now, 2)
     /\ req[r].nomorInvoice = last.nomorInvoice

(***************************************************************************)
(* C15. The year and month in the nomorInvoice of every reservation the    *)
(* server created are the year and month of its createdAt, also when a     *)
(* month boundary passes between the start of the request and the          *)
(* construction of the record.                                             *)
(***************************************************************************)
\* the reservations created by the server (not imported)
Created == {d \in store : d._id.t = "ObjectId" /\ d._id.n > 0}

C15_ScopeIsCreationMonth ==
  \A d \in Created :
     /\ IsStr(d.nomorInvoice)
     /\ HasScope(d.nomorInvoice.s, InvoiceScope(d.createdAt))

(***************************************************************************)
(* C16. An add-on appended to a reservation stays in the add-on list of    *)
(* that reservation, with unchanged content, for as long as the            *)
(* reservation exists: no update, add-on or add-payment request removes,   *)
(* replaces or alters it.                                                  *)
(***************************************************************************)
C16_AddonsStay ==
  [][\A d \in store : \A e \in store' :
       e._id = d._id
       => \A i \in 1..Len(d.addons) :
             \E j \in 1..Len(e.addons) : e.addons[j] = d.addons[i]]_vars

(***************************************************************************)
(* C17. Every add-on and every payment, identified by its _id, is held by  *)
(* exactly one reservation: no sequence of create, update, add-on and      *)
(* add-payment requests puts the same child under two reservations.        *)
(***************************************************************************)
\* the _id values of the add-ons and payments of a reservation
ChildIds(d) ==
  {d.addons[i]._id : i \in 1..Len(d.addons)}
    \cup {d.pembayaran[i]._id : i \in 1..Len(d.pembayaran)}

C17_ExclusiveOwnership ==
  \A d \in store : \A e \in store :
     d._id # e._id => ChildIds(d) \cap ChildIds(e) = {}

(***************************************************************************)
(* C18. A request that fails validation (a malformed id on get, update,    *)
(* delete, add-on or add-payment; an add-on without item, pax, hargaPerPax *)
(* or subTotal; a payment without jumlah or tanggal) is answered 400 and   *)
(* leaves every reservation unchanged.                                     *)
(***************************************************************************)
\* the id of a request path is malformed
Malformed(id) == ~id.hex

\* a field is missing from a body
Missing(j) == j.t = "undefined"

AddonIncomplete(body) ==
  Missing(body.item) \/ Missing(body.pax) \/ Missing(body.hargaPerPax)
    \/ Missing(body.subTotal)

PaymentIncomplete(body) == Missing(body.jumlah) \/ Missing(body.tanggal)

\* the step answers 400 and changes no collection
Rejected ==
  /\ last'.status = 400
  /\ UNCHANGED <<store, addonsCollection, paymentsCollection>>

Unknown(id) == ~\E d \in store : d._id = ObjId(id.n)

\* the step answers 404 and changes no collection
NotFound ==
  /\ last'.status = 404
  /\ UNCHANGED <<store, addonsCollection, paymentsCollection>>

C19_UnknownIdNotFound ==
  [][\A id \in PathIds :
       (~Malformed(id) /\ Unknown(id))
       => /\ Get(id, FALSE) => NotFound
          /\ Delete(id, FALSE) => NotFound
          /\ \A body \in UpdateBodies : Update(id, body, FALSE) => NotFound
          /\ \A body \in AddonBodies :
                (~AddonIncomplete(body) /\ AddAddon(id, body, FALSE)) => NotFound
          /\ \A body \in PaymentBodies :
                (~PaymentIncomplete(body) /\ AddPayment(id, body, FALSE))
                => NotFound]_vars

\* a payment sent to a well-formed id of no reservation has been answered
\* 404 while the collection holds a reservation
C19_Witness ==
  /\ last.op = "payment"
  /\ last.status = 404
  /\ ~Malformed(last.id)
  /\ Unknown(last.id)
  /\ store # {}

(***************************************************************************)
(* C20. The fields pax, hargaPerPax, subTotal and dp of the record a       *)
(* create persists are numbers; each one that was missing or no number in  *)
(* the request is stored as 0, and the request does not fail because of    *)
(* it.                                                                     *)
(***************************************************************************)
\* the number a field of a request stands for, 0 when it is missing or no
\* number
Coerced(body, name) ==
  LET j == IF name \in DOMAIN body THEN body[name]
           ELSE [t |-> "undefined", n |-> 0, s |-> <<>>]
  IN IF j.t = "number" THEN j.n
     ELSE IF j.t = "string" /\ Numeric(j.s) THEN DigitsVal(j.s)
     ELSE 0

C20_NumericCoercion ==
  /\ (last.op = "create" /\ last.status = 201)
     => /\ last.data \in store
        /\ last.data.pax = Coerced(last.body, "pax")
        /\ last.data.hargaPerPax = Coerced(last.body, "hargaPerPax")
        /\ last.data.subTotal = Coerced(last.body, "subTotal")
        /\ last.data.dp = Coerced(last.body, "dp")
  /\ last.op = "create" => last.status = 201

(***************************************************************************)
(* C21. A run of the migration script in which a store operation           *)
(* (connect, deleteMany, insertMany) fails ends with a non-zero exit       *)
(* status, as a run without the connection string does.                    *)
(***************************************************************************)
\* the operations of the script that are calls of the store
StoreCalls ==
  {"connect", "deleteReservations", "deleteAddons", "deletePayments",
   "insertReservations", "insertAddons", "insertPayments"}

C21_FailedRunExitsNonZero ==
  script.pc = "exited"
    => /\ script.outcome = "unconfigured" => script.exit # 0
       /\ (script.outcome = "failed" /\ script.at \in StoreCalls)
            => script.exit # 0

(***************************************************************************)
(* C28. After the migration to three collections has completed, every      *)
(* document of addons and of payments has the _id of a document of         *)
(* reservations as its reservationId, also when reservations.csv has an    *)
(* invoice on several rows and when child rows name an invoice that        *)
(* reservations.csv does not have (such rows are dropped).                 *)
(***************************************************************************)
Completed == script.pc = "exited" /\ script.outcome = "complete"

C28_ChildrenHaveParents == Completed => NoOrphans

\* a completed run on files with an invoice on two rows, of which a child
\* row was kept and another one, of an unknown invoice, dropped
C28_Witness ==
  /\ Completed
  /\ \E i, j \in 1..Len(script.f.invs) : i # j /\ script.f.invs[i] = script.f.invs[j]
  /\ \E i \in 1..Len(script.f.addons) : ~MapHas(script.f.invs, script.f.addons[i])
  /\ Cardinality(store) = 2
  /\ Cardinality(addonsCollection) = 1
  /\ Cardinality(paymentsCollection) = 1

(***************************************************************************)
(* C29. The migration to three collections clears them only after the      *)
(* three files have been read and linked: a run that fails while reading   *)
(* leaves the three collections as they were, and a run that fails after   *)
(* the clearing never leaves documents from before the run together with   *)
(* documents the run inserted.                                             *)
(***************************************************************************)
\* the documents of the three collections before the run, and now
Before ==
  script.before.reservations \cup script.before.addons
    \cup script.before.payments

Now == store \cup addonsCollection \cup paymentsCollection

AsBefore ==
  /\ store = script.before.reservations
  /\ addonsCollection = script.before.addons
  /\ paymentsCollection = script.before.payments

C29_ClearsAfterReading ==
  script.pc # "none"
    => /\ script.pc \in {"connect", "read", "deleteReservations"} => AsBefore
       /\ (script.outcome = "failed" /\ script.at \in {"connect", "read"})
            => AsBefore
       /\ ~(Now \cap Before # {} /\ Now \ Before # {})

\* a run on a database that held documents has failed at the second
\* insertMany, after it had inserted reservations
C29_Witness ==
  /\ script.pc = "exited"
  /\ script.outcome = "failed"
  /\ script.at = "insertAddons"
  /\ Before # {}
  /\ store # {}

(***************************************************************************)
(* C24. A create with a positive deposit does not fail because of payments *)
(* without a usable receipt identifier: when a reservation holds a payment *)
(* of the current NOTA prefix and a payment whose nomorKwitansi is absent, *)
(* the request succeeds and the absent identifier is left out of the       *)
(* maximum.                                                                *)
(***************************************************************************)
\* a reservation holds a payment of the month's prefix and one without
\* identifier
HoldsAbsent(docs, now) ==
  \E d \in docs :
     /\ \E k \in KwitansiStrings(d) : StartsWith(k, KwitansiPrefix(now))
     /\ \E i \in 1..Len(d.pembayaran) : d.pembayaran[i].nomorKwitansi.t = "undefined"

C24_AbsentReceiptIgnored ==
  [][\A r \in Slots :
       (CreateFindKwitansi(r) /\ HoldsAbsent(store, req[r].now))
         => /\ req'[r].pc = "insert"
            /\ Len(req'[r].reservation.pembayaran) = 1]_vars

(***************************************************************************)
(* C25. In every reachable state no two payments in the store, of one      *)
(* reservation or of two, carry the same nomorKwitansi, whatever the       *)
(* sequence of create and add-payment requests.                            *)
(***************************************************************************)
C25_ReceiptsUnique ==
  \A d, e \in store :
    \A i \in 1..Len(d.pembayaran), j \in 1..Len(e.pembayaran) :
       (d.pembayaran[i].nomorKwitansi = e.pembayaran[j].nomorKwitansi
        /\ IsStr(d.pembayaran[i].nomorKwitansi))
         => (d = e /\ i = j)

(***************************************************************************)
(* C26. update-reservation never changes the _id or the nomorInvoice of a  *)
(* reservation: whatever the body, also one that carries the two fields,   *)
(* both values of the target are the same before and after, and every      *)
(* other reservation is unchanged.                                         *)
(***************************************************************************)
\* the _id of every reservation with its nomorInvoice
Identities(docs) == {<<d._id, d.nomorInvoice>> : d \in docs}

C26_IdentityKept ==
  [][\A id \in PathIds, body \in UpdateBodies, fails \in BOOLEAN :
       Update(id, body, fails)
         => /\ Identities(store') = Identities(store)
            /\ Cardinality(store') = Cardinality(store)
            /\ \A d \in store : d._id # ToObjectId(id) => d \in store']_vars

\* an update with a body that carries _id and nomorInvoice has changed one
\* of two reservations
C26_Witness ==
  /\ last.op = "update"
  /\ last.status = 200
  /\ Cardinality(store) = 2
  /\ \E d \in store : d._id = ToObjectId(last.id) /\ d.dp = 5

(***************************************************************************)
(* C22. When a store call of a request handler fails, the handler answers  *)
(* 500 exactly once and makes no further store call for the request: no    *)
(* store operation is retried.                                             *)
(***************************************************************************)
\* the step answers 500, writes nothing, and leaves no request in flight
\* that was not in flight before
Surfaced ==
  /\ last'.status = 500
  /\ UNCHANGED <<store, addonsCollection, paymentsCollection>>
  /\ \A r \in Slots : req'[r].pc # "idle" => req'[r] = req[r]

C22_StoreErrorSurfacedOnce ==
  [][/\ \A r \in Slots :
          CreateStoreError(r)
            => /\ Surfaced
               /\ last'.op = "create"
               /\ last'.slot = r
               /\ req'[r].pc = "idle"
     /\ \A id \in PathIds :
          ~Malformed(id)
          => /\ Get(id, TRUE) => Surfaced
             /\ Delete(id, TRUE) => Surfaced
             /\ \A body \in UpdateBodies : Update(id, body, TRUE) => Surfaced
             /\ \A body \in AddonBodies :
                   (~AddonIncomplete(body) /\ AddAddon(id, body, TRUE))
                   => Surfaced
             /\ \A body \in PaymentBodies :
                   (~PaymentIncomplete(body) /\ AddPayment(id, body, TRUE))
                   => Surfaced]_vars

\* the insert of a create has failed: the request is answered 500 and is
\* no longer in flight, and the collection holds what it held
C22_Witness ==
  /\ last.op = "create"
  /\ last.status = 500
  /\ last.at = "insert"
  /\ req[last.slot].pc = "idle"
  /\ store # {}

(***************************************************************************)
(* C27. Concurrent appends are never lost: when two add-on requests, two   *)
(* add-payment requests, or one of each are in flight together against one *)
(* reservation and both answer success, the reservation afterwards holds   *)
(* both new children and all the children it had before.                   *)
(***************************************************************************)
\* the children a reservation holds
Kids(d) ==
  {d.addons[i] : i \in 1..Len(d.addons)}
    \cup {d.pembayaran[i] : i \in 1..Len(d.pembayaran)}

\* the append requests answered with success
Appended == {r \in Slots : pending[r].pc = "done" /\ pending[r].status = 201}

C27_AppendsKept ==
  /\ [](\A r \in Appended :
          \E d \in store : /\ d._id = ToObjectId(pending[r].id)
                           /\ pending[r].child \in Kids(d))
  /\ [][\A d \in store :
          \E e \in store' : e._id = d._id /\ Kids(d) \subseteq Kids(e)]_vars

\* two appends that were in flight together against a reservation with a
\* payment have both been answered 201
C27_Witness ==
  \E r, q \in Appended :
     /\ r # q
     /\ q \in pending[r].overlaps
     /\ pending[r].id = pending[q].id
     /\ \E d \in store : /\ d._id = ToObjectId(pending[r].id)
                         /\ Cardinality(Kids(d)) >= 3

(***************************************************************************)
(* C23. The update-only migration is idempotent: run twice in succession   *)
(* on the same addons.csv and payments.csv, it leaves every reservation    *)
(* with the same number of add-ons and payments, and the same contents     *)
(* apart from the generated _id and createdAt, as one run does.            *)
(***************************************************************************)
\* a second run has completed after a first run that completed
RanTwice ==
  /\ script.pc = "exited"
  /\ script.run = 2
  /\ script.outcome = "complete"
  /\ script.first # NoContents

C23_Idempotent == RanTwice => Contents(store) = script.first

(***************************************************************************)
(* C30. For a store that does not change and a positive limit, list with   *)
(* page p returns the elements at positions (p-1)*limit to p*limit-1 of    *)
(* the filtered, sorted result, reports total as the number of matching    *)
(* reservations and totalPages as ceil(total/limit), so that the pages     *)
(* 1..totalPages together hold every matching reservation exactly once.    *)
(***************************************************************************)
\* the places (page, position) at which the answered pages hold d
PlacesOf(d) ==
  {pp \in (DOMAIN listed.pages) \X (1..MaxLimit) :
     pp[2] <= Len(listed.pages[pp[1]]) /\ listed.pages[pp[1]][pp[2]] = d}

C30_PagesPartition ==
  /\ (last.op = "list" /\ last.status = 200)
       => /\ last.total = Cardinality(Matching(store, listed.query.search))
          /\ last.totalPages * last.limit >= last.total
          /\ (last.totalPages - 1) * last.limit < last.total \/ last.total = 0
          /\ Len(last.data) <= last.limit
  /\ (listed # NoPages /\ (1..listed.totalPages) \subseteq DOMAIN listed.pages)
       => \A d \in Matching(store, listed.query.search) :
             Cardinality(PlacesOf(d)) = 1
====
